---- MODULE Spec2Model ----
(***************************************************************************)
(* Model of the Portfolio Manager decision cycle of the trading system:    *)
(* Research -> Technical -> Fundamental -> Sentiment -> Aggregate ->       *)
(* Risk gate -> Execute, together with the Risk Agent's rule engine, the    *)
(* runner (run_once, main) and the audit log it writes.                    *)
(*                                                                         *)
(* Numbers: confidences are in hundredths (0.6 is 60); research scores and *)
(* volatility fractions are in units of 1e-5 (the 1e-4 baseline is 10).    *)
(* An optional value (Python None) is a sequence of length 0 or 1.         *)
(***************************************************************************)
EXTENDS Integers, Sequences, FiniteSets, TLC

\* ------------------------------------------------------------------ bounds
MaxInstruments == 2
MaxPositions == 2
MaxCycles == 3

\* --------------------------------------------------------- input alphabets
Instruments == { [symbol |-> "EURUSD", timeframe |-> "H1"],
                 [symbol |-> "XAUUSD", timeframe |-> "M5"] }
RowChoices == {0, 50, 200}
AtrChoices == {0, 5, 20}
MomChoices == {-5, 0}
\* int(os.getenv("RESEARCH_TOP_K_FALLBACK", "2"))
RESEARCH_TOP_K_FALLBACK == 2
TopKChoices == {0, 1, RESEARCH_TOP_K_FALLBACK}
MinTechConfChoices == {65, 80}
LLMConfs == {50, 65}
LLMRecs == {"buy", "sell", "hold", "BUY"}
OverallSignals == {"bullish", "bearish", "neutral"}

None == << >>
Some(x) == << x >>

\* ---------------------------------------------------------------- research
\* RESEARCH_MIN_SCORE, RESEARCH_MIN_ATR_PCT, RESEARCH_MIN_ROWS defaults
min_score == 0
min_atr_pct == 5
min_rows_required == 200
fallback_min_rows == 50
score_baseline == 10

MaxOf(a, b) == IF a >= b THEN a ELSE b
MinOf(a, b) == IF a <= b THEN a ELSE b
Abs(a) == IF a < 0 THEN 0 - a ELSE a

\* sorted(xs, key=priority, reverse=True): stable, equal keys keep their order
RECURSIVE InsertDesc(_, _)
InsertDesc(c, s) ==
    IF s = << >> THEN << c >>
    ELSE IF c.priority > Head(s).priority THEN << c >> \o s
    ELSE << Head(s) >> \o InsertDesc(c, Tail(s))

RECURSIVE SortDescFrom(_, _)
SortDescFrom(acc, s) ==
    IF s = << >> THEN acc ELSE SortDescFrom(InsertDesc(Head(s), acc), Tail(s))

sorted_by_priority_desc(s) == SortDescFrom(<< >>, s)

Take(s, k) == IF Len(s) <= k THEN s ELSE SubSeq(s, 1, k)

\* threshold pass of find_opportunities over the scan list; env[i] is what the
\* market-data source yields for scan item i
RECURSIVE threshold_pass(_, _, _)
threshold_pass(scan, env, i) ==
    IF i > Len(scan) THEN << >>
    ELSE LET e == env[i]
             atr_pct == e.atr
             score == MaxOf(min_score, score_baseline + MaxOf(e.mom, 0) + atr_pct)
             rest == threshold_pass(scan, env, i + 1)
         IN IF e.rows < min_rows_required THEN rest
            ELSE IF atr_pct >= min_atr_pct /\ score >= min_score
                 THEN << [symbol |-> scan[i].symbol, timeframe |-> scan[i].timeframe,
                          priority |-> score, idx |-> i] >> \o rest
                 ELSE rest

\* permissive pass (no thresholds, min_rows=50)
RECURSIVE permissive_pass(_, _, _)
permissive_pass(scan, env, i) ==
    IF i > Len(scan) THEN << >>
    ELSE LET e == env[i]
             rest == permissive_pass(scan, env, i + 1)
         IN IF e.rows < fallback_min_rows THEN rest
            ELSE << [symbol |-> scan[i].symbol, timeframe |-> scan[i].timeframe,
                     priority |-> score_baseline + e.atr, idx |-> i] >> \o rest

\* the fallback keeping the first top_k scan items instead of the best top_k
research_candidates_first_k(instruments, connected, env, top_k) ==
    IF instruments = << >> THEN << >>
    ELSE IF ~connected THEN << >>
    ELSE LET first == threshold_pass(instruments, env, 1)
         IN IF first = << >> /\ top_k > 0
            THEN Take(permissive_pass(instruments, env, 1), top_k)
            ELSE first

\* the candidates list before the final sort
research_candidates(instruments, connected, env, top_k) ==
    IF instruments = << >> THEN << >>
    ELSE IF ~connected THEN << >>
    ELSE LET first == threshold_pass(instruments, env, 1)
         IN IF first = << >> /\ top_k > 0
            THEN Take(sorted_by_priority_desc(permissive_pass(instruments, env, 1)), top_k)
            ELSE first

find_opportunities(instruments, connected, env, top_k) ==
    sorted_by_priority_desc(research_candidates(instruments, connected, env, top_k))

\* max(opps, key=priority): the first element holding the maximum
RECURSIVE MaxFirstFrom(_, _)
MaxFirstFrom(best, s) ==
    IF s = << >> THEN best
    ELSE MaxFirstFrom(IF Head(s).priority > best.priority THEN Head(s) ELSE best, Tail(s))

\* max() replaced by a scan that keeps the last element holding the maximum
RECURSIVE MaxLastFrom(_, _)
MaxLastFrom(best, s) ==
    IF s = << >> THEN best
    ELSE MaxLastFrom(IF Head(s).priority >= best.priority THEN Head(s) ELSE best, Tail(s))

pick_top_last(found) == MaxLastFrom(Head(found), Tail(found))

pick_top(found) == MaxFirstFrom(Head(found), Tail(found))

\* ------------------------------------------------------- reasoning provider
\* A provider reply as the agents see it after call_llm and
\* extract_json_from_response: unavailable (no response, no choices or
\* unparseable text), raise (an exception inside _analyze_with_llm), or a
\* parsed JSON object.  rec is None when the object has no "recommendation"
\* key, Some(NullRec) when the value is JSON null, Some(string) otherwise.
NullRec == "<null>"
RecValues == { None, Some(NullRec) } \cup { Some(r) : r \in LLMRecs }
LLMReplies ==
    { [kind |-> "unavailable", rec |-> None, conf |-> 0],
      [kind |-> "raise", rec |-> None, conf |-> 0] }
    \cup [kind : {"parsed"}, rec : RecValues, conf : LLMConfs]

\* the replies the Fundamental and Sentiment Agents are run against inside the
\* pipeline, where only their recommendation is read: no usable response, or
\* an object with one confidence and no recommendation, a direction, or a
\* direction in capitals
AnalystReplies ==
    { [kind |-> "unavailable", rec |-> None, conf |-> 0] }
    \cup [kind : {"parsed"}, rec : {None, Some("buy"), Some("sell"), Some("BUY")},
          conf : {65}]

\* str.lower() on the strings of the model: every word the model writes with
\* a capital has its lower-case form here, all other strings are lower case
\* already
Lower(s) ==
    CASE s \in {"BUY", "Buy"} -> "buy"
      [] s \in {"SELL", "Sell"} -> "sell"
      [] s \in {"HOLD", "Hold"} -> "hold"
      [] s \in {"APPROVE", "Approve"} -> "approve"
      [] s \in {"REJECT", "Reject"} -> "reject"
      [] s \in {"HIGH", "High"} -> "high"
      [] s \in {"MEDIUM", "Medium"} -> "medium"
      [] s \in {"LOW", "Low"} -> "low"
      [] s \in {"FILLED", "Filled"} -> "filled"
      [] s \in {"FAILED", "Failed"} -> "failed"
      [] s = "None" -> "none"
      [] OTHER -> s

\* format_analysis_result, reduced to the fields the pipeline reads
format_analysis_result(recommendation, confidence, reasoning) ==
    [recommendation |-> recommendation, confidence |-> confidence,
     reasoning |-> reasoning]

\* ------------------------------------------------------------ agent memory
max_short_term_items == 50

\* s[-n:]
LastItems(s, n) == IF Len(s) > n THEN SubSeq(s, Len(s) - n + 1, Len(s)) ELSE s

\* s[:n]
FirstItems(s, n) == IF Len(s) > n THEN SubSeq(s, 1, n) ELSE s

\* the item store_short_term builds
memory_item(memory_type, content) ==
    [type |-> memory_type, content |-> content, timestamp |-> "t_store"]

\* store_short_term dropping the newest items when the list is full
store_short_term_keep_oldest(mem, memory_type, content) ==
    FirstItems(Append(mem, memory_item(memory_type, content)), max_short_term_items)

\* store_short_term: append, then keep the last max_short_term_items
store_short_term(mem, memory_type, content) ==
    LET appended == Append(mem, memory_item(memory_type, content))
    IN IF Len(appended) > max_short_term_items
       THEN LastItems(appended, max_short_term_items)
       ELSE appended

\* json.dumps of a content that is not a string
json_dumps(content) == << "json", content >>

\* store_long_term line 54: the metadata column is NULL for no metadata and
\* for an empty dict
metadata_str(metadata) ==
    IF metadata = None \/ DOMAIN metadata[1] = {} THEN None
    ELSE Some(json_dumps(metadata[1]))

\* store_long_term of a content that is not a str and that json.dumps
\* accepts, without metadata: one more row of agent_memory
store_long_term(rows, agent_name, memory_type, content) ==
    Append(rows, [agent_name |-> agent_name, memory_type |-> memory_type,
                  content |-> json_dumps(content), metadata |-> None])

\* store_insight: store_long_term('insight', insight, metadata); the insight
\* is a str and is stored as it is, without json.dumps
store_insight(rows, agent_name, insight, metadata) ==
    Append(rows, [agent_name |-> agent_name, memory_type |-> "insight",
                  content |-> << "text", insight >>,
                  metadata |-> metadata_str(metadata)])

\* --------------------------------------------------------- technical agent
TechDataStates == {"ok", "insufficient", "no_indicators", "exception"}

technical_analyze_with_llm(overall, llm) ==
    CASE llm.kind = "parsed" -> [rec |-> llm.rec, conf |-> llm.conf]
      [] llm.kind = "unavailable" -> [rec |-> Some(overall), conf |-> 50]
      [] OTHER -> [rec |-> Some("hold"), conf |-> 30]

\* returns <<recommendation, confidence>>, or <<"raise", 0>> when .lower() is
\* applied to a value that is not a string
determine_recommendation(overall, llm_analysis) ==
    LET raw == IF llm_analysis.rec = None THEN "" ELSE llm_analysis.rec[1]
    IN IF raw = NullRec THEN << "raise", 0 >>
       ELSE IF Lower(raw) \in {"buy", "sell", "hold"} /\ llm_analysis.conf >= 60
            THEN << Lower(raw), llm_analysis.conf >>
       ELSE IF overall = "bullish" THEN << "buy", 60 >>
       ELSE IF overall = "bearish" THEN << "sell", 60 >>
       ELSE << "hold", 50 >>

TechnicalAgent_analyze(instrument, data_state, overall, llm) ==
    IF instrument = "" THEN format_analysis_result("error", 0, "No instrument specified")
    ELSE IF data_state = "exception"
         THEN format_analysis_result("error", 0, "Error during technical analysis")
    ELSE IF data_state = "insufficient"
         THEN format_analysis_result("insufficient_data", 0, "Insufficient historical data")
    ELSE IF data_state = "no_indicators"
         THEN format_analysis_result("error", 0, "Failed to calculate technical indicators")
    ELSE LET la == technical_analyze_with_llm(overall, llm)
             d == determine_recommendation(overall, la)
         IN IF d[1] = "raise"
            THEN format_analysis_result("error", 0, "Error during technical analysis")
            ELSE format_analysis_result(d[1], d[2], "llm reasoning")

\* whether analyze reaches self.log_decision(result) (line 91): no early
\* return and no exception before it
TechnicalAgent_logs(instrument, data_state, overall, llm) ==
    /\ instrument # ""
    /\ data_state = "ok"
    /\ determine_recommendation(overall, technical_analyze_with_llm(overall, llm))[1]
         # "raise"

\* ------------------------------------------- fundamental / sentiment agents
\* _analyze_with_llm of both agents: the parsed object, or a hold fallback
hold_fallback_llm(llm) ==
    CASE llm.kind = "parsed" -> [rec |-> llm.rec, conf |-> llm.conf]
      [] llm.kind = "unavailable" -> [rec |-> Some("hold"), conf |-> 50]
      [] OTHER -> [rec |-> Some("hold"), conf |-> 30]

\* dict.get(key, default) on the recommendation of a provider reply
rec_or_default(la, default) == IF la.rec = None THEN default ELSE la.rec[1]

\* get_fundamental_summary's recommendation: compare_currencies'
\* suggested_direction
FundSummaryRecs == {"buy", "sell", "neutral"}

\* FundamentalAgent_analyze with _analyze_with_llm letting its exception out
FundamentalAgent_analyze_llm_raises(instrument, raises, summary_rec, llm) ==
    IF instrument = "" THEN format_analysis_result("error", 0, "No instrument specified")
    ELSE IF raises \/ llm.kind = "raise"
         THEN format_analysis_result("error", 0, "Error during fundamental analysis")
    ELSE LET la == hold_fallback_llm(llm)
         IN format_analysis_result(rec_or_default(la, summary_rec), la.conf, "llm reasoning")

FundamentalAgent_analyze(instrument, raises, summary_rec, llm) ==
    IF instrument = "" THEN format_analysis_result("error", 0, "No instrument specified")
    ELSE IF raises THEN format_analysis_result("error", 0, "Error during fundamental analysis")
    ELSE LET la == hold_fallback_llm(llm)
         IN format_analysis_result(rec_or_default(la, summary_rec), la.conf, "llm reasoning")

\* whether analyze reaches self.log_decision(result) (line 65)
FundamentalAgent_logs(instrument, raises) == instrument # "" /\ ~raises

\* ------------------------------------------------------ economic calendar
\* should_pause_trading defaults, in minutes
pause_before_minutes == 15
pause_after_minutes == 15
pause_hours_ahead == 1

\* get_upcoming_events as the Sentiment Agent calls it
upcoming_hours == 24

\* a cached event whose date and time parse: its impact as the feed writes it
\* and its time in minutes, counted from the moment analyze runs
EventOffsets == {-16, -15, -1, 0, 15, 16, 61}
CalendarEvents == [impact : {"High", "Medium", "Low", "HIGH"}, at : EventOffsets]

\* the event as both getters return it: event['event_datetime'] holds the
\* parsed datetime
with_event_datetime(e) == [impact |-> e.impact, at |-> e.at, event_datetime |-> e.at]

\* get_high_impact_events: high impact and now <= event_datetime <= cutoff
get_high_impact_events(events, now, hours_ahead) ==
    LET kept == SelectSeq(events, LAMBDA e : /\ Lower(e.impact) = "high"
                                             /\ now <= e.at
                                             /\ e.at <= now + hours_ahead * 60)
    IN [i \in DOMAIN kept |-> with_event_datetime(kept[i])]

\* should_pause_trading: the pair (should_pause, event_info), the event being
\* the first of get_high_impact_events(hours_ahead=1) inside the window
should_pause_trading(events, now) ==
    LET high == get_high_impact_events(events, now, pause_hours_ahead)
        inside == { i \in DOMAIN high : /\ -pause_after_minutes <= high[i].at - now
                                        /\ high[i].at - now <= pause_before_minutes }
    IN IF inside = {} THEN << FALSE, None >>
       ELSE << TRUE, Some(high[CHOOSE i \in inside : \A j \in inside : i <= j]) >>

impact_levels == [Low |-> 1, Medium |-> 2, High |-> 3]

\* impact_levels.get(impact, default)
impact_level(impact, default) ==
    IF impact \in DOMAIN impact_levels THEN impact_levels[impact] ELSE default

\* list.sort(key=event_datetime): stable, ascending
RECURSIVE InsertByDatetime(_, _)
InsertByDatetime(e, s) ==
    IF s = << >> THEN << e >>
    ELSE IF e.event_datetime < Head(s).event_datetime THEN << e >> \o s
    ELSE << Head(s) >> \o InsertByDatetime(e, Tail(s))

RECURSIVE SortByDatetimeFrom(_, _)
SortByDatetimeFrom(acc, s) ==
    IF s = << >> THEN acc ELSE SortByDatetimeFrom(InsertByDatetime(Head(s), acc), Tail(s))

\* get_upcoming_events: impact at or above min_impact, inside the next hours
get_upcoming_events(events, now, hours, min_impact) ==
    LET kept == SelectSeq(events,
                    LAMBDA e : /\ impact_level(e.impact, 0) >= impact_level(min_impact, 2)
                               /\ now <= e.at
                               /\ e.at <= now + hours * 60)
    IN SortByDatetimeFrom(<< >>, [i \in DOMAIN kept |-> with_event_datetime(kept[i])])

\* the calendar caches the analysts are run against: empty, a High event in
\* fifteen minutes, a Medium one, a high-impact event the feed writes in
\* capitals, and a High event one minute past
CalendarStates ==
    { << >>,
      << [impact |-> "High", at |-> 15] >>,
      << [impact |-> "Medium", at |-> 15] >>,
      << [impact |-> "HIGH", at |-> 0] >>,
      << [impact |-> "High", at |-> -1] >> }

\* --------------------------------------------------------- sentiment agent
\* get_sentiment_summary's overall_signal
SentimentSignals == {"bullish", "bearish", "neutral"}

\* json.dumps raises TypeError on a datetime: an analysis result whose data
\* lists a calendar event carrying event_datetime
has_datetime(content) ==
    /\ "data" \in DOMAIN content
    /\ \/ \E i \in DOMAIN content.data.economic_events :
             "event_datetime" \in DOMAIN content.data.economic_events[i]
       \/ /\ content.data.upcoming_event # None
          /\ "event_datetime" \in DOMAIN content.data.upcoming_event[1]

\* SentimentAgent._analyze_with_llm: json.dumps(economic_events[:5]) runs
\* before the provider call when the list is not empty, and its TypeError
\* lands in the except branch
sentiment_analyze_with_llm(economic_events, llm) ==
    IF \E i \in DOMAIN economic_events : "event_datetime" \in DOMAIN economic_events[i]
    THEN [rec |-> Some("hold"), conf |-> 30]
    ELSE hold_fallback_llm(llm)

\* the result analyze builds at lines 69-80, with the two entries of its data
\* that hold calendar events
SentimentAgent_result(overall_signal, events, now, llm) ==
    LET economic_events == get_upcoming_events(events, now, upcoming_hours, "Medium")
        pause == should_pause_trading(events, now)
        la == sentiment_analyze_with_llm(economic_events, llm)
        data == [economic_events |-> economic_events, upcoming_event |-> pause[2]]
    IN IF pause[1]
       THEN [recommendation |-> "hold", confidence |-> 30,
             reasoning |-> "llm reasoning", data |-> data]
       ELSE [recommendation |-> rec_or_default(la, overall_signal),
             confidence |-> la.conf, reasoning |-> "llm reasoning", data |-> data]

\* SentimentAgent.analyze; events is the calendar's cache and now the minute
\* analyze runs.  log_decision (line 85) raises inside json.dumps when the
\* result lists a calendar event, and the except branch answers 'error'
SentimentAgent_analyze(instrument, raises, overall_signal, events, now, llm) ==
    IF instrument = "" THEN format_analysis_result("error", 0, "No instrument specified")
    ELSE IF raises THEN format_analysis_result("error", 0, "Error during sentiment analysis")
    ELSE LET res == SentimentAgent_result(overall_signal, events, now, llm)
         IN IF has_datetime(res)
            THEN format_analysis_result("error", 0, "Error during sentiment analysis")
            ELSE res

\* whether analyze reaches self.log_decision(result) (line 85)
SentimentAgent_logs(instrument, raises) == instrument # "" /\ ~raises

\* -------------------------------------------------------------- risk agent
\* The attributes class Settings defines (config/settings.py) that the risk
\* and execution code could read; reading any other attribute raises
\* AttributeError.  Fractions are in percent.
Settings ==
    [ MAX_RISK_PER_TRADE |-> 1, MAX_DAILY_LOSS |-> 5, MAX_OPEN_POSITIONS |-> 10,
      MAX_POSITIONS_PER_INSTRUMENT |-> 1, MAX_DRAWDOWN |-> 20 ]
HasSetting(name) == name \in DOMAIN Settings

\* The methods class Database defines that the risk code could call
DatabaseMethods == {"insert_trade", "get_open_trades", "get_closed_trades",
                    "insert_agent_memory", "get_agent_memory"}

RECURSIVE SumSeq(_)
SumSeq(s) == IF s = << >> THEN 0 ELSE Head(s) + SumSeq(Tail(s))

\* _get_daily_loss: abs(min(sum of all profits, 0))
get_daily_loss(profits) ==
    IF profits = << >> THEN 0 ELSE Abs(MinOf(SumSeq(profits), 0))

RaisedChecks == [raised |-> TRUE, sufficient_balance |-> FALSE, equity_check |-> FALSE,
                 margin_level_ok |-> FALSE, daily_loss_ok |-> FALSE, drawdown_ok |-> FALSE]

\* _perform_risk_checks; peak is the recorded peak balance (0 when none)
perform_risk_checks(account_info, profits, peak) ==
    LET balance == account_info.balance
        equity == account_info.equity
        margin_level == account_info.margin_level
        daily_loss == get_daily_loss(profits)
    IN IF ~HasSetting("MAX_DAILY_LOSS_PERCENT") THEN RaisedChecks
       ELSE IF "get_peak_balance" \notin DatabaseMethods THEN RaisedChecks
       ELSE IF peak # 0 /\ ~HasSetting("MAX_DRAWDOWN_PERCENT") THEN RaisedChecks
       ELSE [raised |-> FALSE,
             sufficient_balance |-> balance > 100,
             equity_check |-> 2 * equity > balance,
             margin_level_ok |-> (margin_level > 200 \/ margin_level = 0),
             daily_loss_ok |->
                 100 * daily_loss < balance * Settings["MAX_DAILY_LOSS_PERCENT"],
             drawdown_ok |->
                 IF peak # 0
                 THEN 100 * (peak - equity) < peak * Settings["MAX_DRAWDOWN_PERCENT"]
                 ELSE TRUE]

\* _check_position_limits; positions is the list of open positions' symbols
check_position_limits(instrument, positions) ==
    LET instrument_positions ==
            Cardinality({i \in DOMAIN positions : positions[i] = instrument})
    IN [positions_ok |-> Len(positions) < Settings.MAX_OPEN_POSITIONS,
        instrument_ok |-> instrument_positions < Settings.MAX_POSITIONS_PER_INSTRUMENT]

\* _calculate_position_size: every path ends in Settings.DEFAULT_POSITION_SIZE
\* (the except branch included); TRUE when the call raises
calculate_position_size_raises ==
    ~HasSetting("DEFAULT_POSITION_SIZE")

\* RiskAgent._analyze_with_llm: the parsed object, or an approve fallback
risk_analyze_with_llm(llm) ==
    CASE llm.kind = "parsed" -> [rec |-> llm.rec, conf |-> llm.conf]
      [] llm.kind = "unavailable" -> [rec |-> Some("approve"), conf |-> 60]
      [] OTHER -> [rec |-> Some("approve"), conf |-> 50]

\* _should_proceed: "true", "false", or "raise" when .lower() is applied to a
\* recommendation that is not a string
should_proceed(risk_checks, position_check, llm_analysis) ==
    IF ~risk_checks.sufficient_balance THEN "false"
    ELSE IF ~risk_checks.equity_check THEN "false"
    ELSE IF ~risk_checks.margin_level_ok THEN "false"
    ELSE IF ~risk_checks.daily_loss_ok THEN "false"
    ELSE IF ~risk_checks.drawdown_ok THEN "false"
    ELSE IF ~position_check.positions_ok THEN "false"
    ELSE IF ~position_check.instrument_ok THEN "false"
    ELSE LET raw == IF llm_analysis.rec = None THEN "" ELSE llm_analysis.rec[1]
         IN IF raw = NullRec THEN "raise"
            ELSE IF Lower(raw) = "reject" THEN "false"
            ELSE "true"

\* RiskAgent.analyze answering approve where it cannot obtain the account state
\* or an exception interrupts its checks
RiskAgent_analyze_fails_open(proposed_trade, account_info, profits, peak, positions, llm) ==
    IF proposed_trade = None
    THEN format_analysis_result("error", 0, "No proposed trade provided")
    ELSE format_analysis_result("approve", 100, "Error during risk analysis")

\* RiskAgent.analyze.  proposed_trade is None for an empty or missing
\* proposed_trade; account_info is None when the account state cannot be
\* obtained.
RiskAgent_analyze(proposed_trade, account_info, profits, peak, positions, llm) ==
    IF proposed_trade = None
    THEN format_analysis_result("error", 0, "No proposed trade provided")
    ELSE IF account_info = None
    THEN format_analysis_result("error", 0, "Unable to get account information")
    ELSE LET risk_checks == perform_risk_checks(account_info[1], profits, peak)
             position_check == check_position_limits(proposed_trade[1].instrument, positions)
             llm_analysis == risk_analyze_with_llm(llm)
             proceed == should_proceed(risk_checks, position_check, llm_analysis)
         IN IF risk_checks.raised \/ calculate_position_size_raises \/ proceed = "raise"
            THEN format_analysis_result("reject", 100, "Error during risk analysis")
            ELSE format_analysis_result(IF proceed = "true" THEN "approve" ELSE "reject",
                                        llm_analysis.conf, "llm reasoning")

\* whether analyze reaches self.log_decision(result) (line 102)
RiskAgent_logs(proposed_trade, account_info, profits, peak, positions, llm) ==
    /\ proposed_trade # None
    /\ account_info # None
    /\ ~perform_risk_checks(account_info[1], profits, peak).raised
    /\ ~calculate_position_size_raises
    /\ should_proceed(perform_risk_checks(account_info[1], profits, peak),
                      check_position_limits(proposed_trade[1].instrument, positions),
                      risk_analyze_with_llm(llm)) # "raise"

\* --------------------------------------------------------- execution agent
\* {}: a dict is the function from its keys to their values
EmptyDict == [k \in {} |-> None]

\* dict.get(key, default)
dict_get(d, key, default) == IF key \in DOMAIN d THEN d[key] ELSE default

\* An execution result: the recommendation, the keys of its data dict, the
\* value of data["order"] (no path sets that key) and whether insert_trade ran
ExecResult(recommendation, data_keys, inserted) ==
    [recommendation |-> recommendation, data_keys |-> data_keys,
     order |-> EmptyDict, trade_inserted |-> inserted]

\* _execute_paper_trade: the default of trade_decision.get('volume', ...) is
\* evaluated first and raises; the except branch answers 'error'
execute_paper_trade ==
    IF ~HasSetting("DEFAULT_POSITION_SIZE") THEN ExecResult("error", {}, FALSE)
    ELSE ExecResult("executed_paper",
                    {"ticket", "instrument", "action", "volume", "price", "stop_loss",
                     "take_profit", "paper_trade"}, TRUE)

\* ExecutionAgent.analyze reads data.get('trade_decision', {}) of the dict it
\* is given; a missing or empty one answers 'error'.  Settings.PAPER_TRADING is
\* read next; an AttributeError there lands in the except branch.
ExecutionAgent_analyze(payload) ==
    IF dict_get(payload, "trade_decision", EmptyDict) = EmptyDict
    THEN ExecResult("error", {}, FALSE)
    ELSE IF ~HasSetting("PAPER_TRADING") THEN ExecResult("error", {}, FALSE)
    ELSE execute_paper_trade

\* ------------------------------------------------------- portfolio manager
\* votes.count(x)
CountVotes(votes, x) == Cardinality({i \in DOMAIN votes : votes[i] = x})

\* majority_vote with a single directional vote counting as a majority
majority_vote_one_vote(votes) ==
    LET buys == CountVotes(votes, "buy")
        sells == CountVotes(votes, "sell")
    IN IF buys > sells /\ buys >= 1
       THEN [final |-> "buy", conf |-> 60, reason |-> "Majority voting across agents"]
       ELSE IF sells > buys /\ sells >= 1
       THEN [final |-> "sell", conf |-> 60, reason |-> "Majority voting across agents"]
       ELSE [final |-> "hold", conf |-> 50, reason |-> "No strong consensus"]

\* Step 5: majority voting
majority_vote(votes) ==
    LET buys == CountVotes(votes, "buy")
        sells == CountVotes(votes, "sell")
    IN IF buys > sells /\ buys >= 2
       THEN [final |-> "buy", conf |-> 60, reason |-> "Majority voting across agents"]
       ELSE IF sells > buys /\ sells >= 2
       THEN [final |-> "sell", conf |-> 60, reason |-> "Majority voting across agents"]
       ELSE [final |-> "hold", conf |-> 50, reason |-> "No strong consensus"]

\* tech_only_fallback with a strict confidence threshold
tech_only_fallback_strict(d, enabled, t_rec, t_conf, min_conf) ==
    IF d.final = "hold" /\ enabled /\ t_rec \in {"buy", "sell"} /\ t_conf > min_conf
    THEN [final |-> t_rec, conf |-> t_conf,
          reason |-> "Tech-only fallback (confidence threshold passed)"]
    ELSE d

\* optional fallback: trade on Technical alone
tech_only_fallback(d, enabled, t_rec, t_conf, min_conf) ==
    IF d.final = "hold" /\ enabled /\ t_rec \in {"buy", "sell"} /\ t_conf >= min_conf
    THEN [final |-> t_rec, conf |-> t_conf,
          reason |-> "Tech-only fallback (confidence threshold passed)"]
    ELSE d

\* needs_risk_gate consulting the Risk Agent for every decision
needs_risk_gate_always(final) == final \in {"buy", "sell", "hold"}

\* needs_risk_gate with the gate disabled
needs_risk_gate_never(final) == final \in {}

\* line 182: the risk gate runs only for a directional decision
needs_risk_gate(final) == final \in {"buy", "sell"}

\* line 200: execution runs only for a directional decision
needs_execution(final) == final \in {"buy", "sell"}

\* lines 184-192: the proposed_trade handed to risk.analyze
make_proposed_trade(sym, timeframe, d) ==
    [instrument |-> sym, direction |-> d.final, timeframe |-> timeframe,
     confidence |-> d.conf, source |-> d.reason]

\* risk_gate vetoing only on an explicit "reject"
risk_gate_reject_only(d, risk_rec) ==
    IF risk_rec = "reject"
    THEN [final |-> "hold", conf |-> 50, reason |-> "Risk manager veto"]
    ELSE d

\* risk_gate keeping the vetoed decision's confidence
risk_gate_keeps_conf(d, risk_rec) ==
    IF risk_rec # "approve"
    THEN [final |-> "hold", conf |-> d.conf, reason |-> "Risk manager veto"]
    ELSE d

\* Step 6, after risk.analyze returned risk_rec for a buy/sell decision
risk_gate(d, risk_rec) ==
    IF risk_rec # "approve"
    THEN [final |-> "hold", conf |-> 50, reason |-> "Risk manager veto"]
    ELSE d

\* exec_res.get("data", {}).get("order", {}) or {}
trade_details_of(exec_res) ==
    IF "order" \in exec_res.data_keys THEN exec_res.order ELSE EmptyDict

NoVotes == [tech |-> "", fund |-> "", sent |-> ""]
NoDecision == [final |-> "", conf |-> 0, reason |-> ""]

VARIABLES
    trade_on_tech_alone,   \* PM_TRADE_ON_TECH_ALONE
    min_tech_conf,         \* PM_MIN_TECH_CONF
    top_k_fallback,        \* RESEARCH_TOP_K_FALLBACK
    cached_instruments,    \* PortfolioManager._cached_instruments
    pc,                    \* position inside PortfolioManager.analyze
    candidates,            \* find_opportunities: candidates before the final sort
    opps,                  \* research_res["data"]["opportunities"]
    symbol, tf,            \* the candidate under analysis
    votes,                 \* tech_rec, fund_rec, sent_rec
    tech_conf,
    majority,              \* final/conf/reason after line 170
    pre_risk,              \* final/conf/reason after line 179
    decision,              \* the locals final/conf/reason
    proposed_trade,        \* None, or Some(dict given to risk.analyze)
    risk_res,              \* None, or Some(risk_res)
    trade_details,
    result,                \* None, or Some(returned AnalysisResult)
    calls,                 \* agent invocations of this cycle, in order
    rk_in, rk_out,         \* inputs and result of RiskAgent._should_proceed
    ag_in, ag_out,         \* inputs and result of one analyst's analyze
    fn_in, fn_out,         \* inputs and result of one helper called on its own
    short_term_memory,     \* AgentMemory.short_term_memory of each agent
    long_term_memory,      \* rows of agent_memory written by store_long_term
    stored,                \* history: each agent's items stored since its last
                           \* clear_short_term
    mem_ops,               \* history: number of AgentMemory calls made
    exec_res,              \* None, or Some(exec_res)
    db_trades,             \* number of rows insert_trade has written
    risk_case,             \* what the Risk Agent was given: "none", "no_account",
                           \* "clean", "other"
    config_file,           \* config/instruments.yaml at startup: ok, missing, unparsable
    mode,                  \* "single" (--interval 0) or "continuous"
    rpc,                   \* position of the runner (main / run_once)
    run_id,                \* the current cycle's run id, 0 before the first
    journal,               \* logs/journal.jsonl
    decisions_file         \* logs/decisions.jsonl

vars == << trade_on_tech_alone, min_tech_conf, top_k_fallback, cached_instruments,
           pc, candidates, opps, symbol, tf, votes, tech_conf, majority, pre_risk,
           decision, proposed_trade, risk_res, trade_details, result, calls,
           rk_in, rk_out, ag_in, ag_out, fn_in, fn_out, short_term_memory,
           long_term_memory, stored, mem_ops, exec_res, db_trades, risk_case, config_file, mode,
           rpc, run_id, journal, decisions_file >>

cfg_vars == << trade_on_tech_alone, min_tech_conf, top_k_fallback, cached_instruments,
               config_file, mode >>
fn_vars == << fn_in, fn_out >>
mem_vars == << short_term_memory, long_term_memory, stored, mem_ops >>
obs_vars == << rk_in, rk_out, ag_in, ag_out, fn_vars >>
rk_vars == << obs_vars, mem_vars >>
exec_vars == << exec_res, db_trades >>
log_vars == << rpc, run_id, journal, decisions_file >>
pm_vars == << pc, candidates, opps, symbol, tf, votes, tech_conf, majority, pre_risk,
              decision, proposed_trade, risk_res, trade_details, result, calls,
              exec_res, risk_case >>

\* RESEARCH_FORCE_TF is unset: PortfolioManager._default_tf
default_tf == "H1"

RECURSIVE SeqsUpTo(_, _)
SeqsUpTo(S, n) ==
    IF n = 0 THEN { << >> }
    ELSE LET shorter == SeqsUpTo(S, n - 1)
         IN shorter \cup { Append(q, x) : q \in shorter, x \in S }

NoRepeats(q) == \A i, j \in DOMAIN q : q[i] = q[j] => i = j

\* instrument lists of config/instruments.yaml: each symbol listed once
InstrumentLists == { q \in SeqsUpTo(Instruments, MaxInstruments) : NoRepeats(q) }

CycleStart ==
    /\ pc = "research"
    /\ candidates = << >>
    /\ opps = << >>
    /\ symbol = ""
    /\ tf = ""
    /\ votes = NoVotes
    /\ tech_conf = 0
    /\ majority = NoDecision
    /\ pre_risk = NoDecision
    /\ decision = NoDecision
    /\ proposed_trade = None
    /\ risk_res = None
    /\ trade_details = EmptyDict
    /\ result = None
    /\ calls = << >>
    /\ exec_res = None
    /\ risk_case = "none"

ConfigFileStates == {"ok", "missing", "unparsable"}

\* _load_instruments_for_pipeline: the enabled instruments the file lists, or
\* the empty list when the file cannot be opened or parsed (the exception is
\* logged and swallowed)
load_instruments_for_pipeline(file_state, listed) ==
    IF file_state = "ok" THEN listed ELSE << >>

\* no helper under observation, AgentMemory.__init__ (lines 20-22)
FnStart ==
    /\ fn_in = None
    /\ fn_out = None

\* BaseAgent.__init__ line 36: every agent owns one AgentMemory(name)
AgentNames == {"ResearchAgent", "TechnicalAgent", "FundamentalAgent", "SentimentAgent",
               "RiskAgent", "ExecutionAgent", "PortfolioManager"}

MemoryStart ==
    /\ short_term_memory = [a \in AgentNames |-> << >>]
    /\ long_term_memory = << >>
    /\ stored = [a \in AgentNames |-> << >>]
    /\ mem_ops = 0

\* BaseAgent.log_decision, AgentMemory.store_decision: the decision goes to the
\* agent's short-term list and then to a new agent_memory row; json.dumps
\* raising leaves the short-term item and writes no row
log_decision(agent_name, d) ==
    /\ short_term_memory' =
         [short_term_memory EXCEPT ![agent_name] = store_short_term(@, "decision", d)]
    /\ long_term_memory' =
         IF has_datetime(d) THEN long_term_memory
         ELSE store_long_term(long_term_memory, agent_name, "decision", d)
    /\ stored' = [stored EXCEPT ![agent_name] = Append(@, memory_item("decision", d))]
    /\ mem_ops' = mem_ops + 1

\* nothing logged yet, no trade rows written by this process
LogsStart ==
    /\ rpc = "start"
    /\ run_id = 0
    /\ journal = << >>
    /\ decisions_file = << >>
    /\ db_trades = 0

\* main() up to and including PortfolioManager() and AuditLogger(), run with
\* --interval 0
Init ==
    /\ trade_on_tech_alone \in BOOLEAN
    /\ min_tech_conf \in MinTechConfChoices
    /\ top_k_fallback \in {0, RESEARCH_TOP_K_FALLBACK}
    /\ config_file \in ConfigFileStates
    /\ \E listed \in InstrumentLists :
         cached_instruments = load_instruments_for_pipeline(config_file, listed)
    /\ mode = "single"
    /\ CycleStart
    /\ LogsStart
    /\ rk_in = None
    /\ rk_out = "none"
    /\ ag_in = None
    /\ ag_out = None
    /\ FnStart
    /\ MemoryStart

Call(agent, instrument, timeframe) ==
    [agent |-> agent, instrument |-> instrument, timeframe |-> timeframe]

\* no_action_result reporting hold instead of no_action
no_action_result_hold(reasoning) ==
    [agent |-> "PortfolioManager", timestamp |-> "t_result",
     recommendation |-> "hold", confidence |-> 50, reasoning |-> reasoning,
     has_data |-> FALSE, symbol |-> "", timeframe |-> "", votes |-> NoVotes,
     trade_details |-> EmptyDict]

\* The returned AnalysisResult.  agent, recommendation, confidence, reasoning
\* and timestamp are its top-level keys; has_data, symbol, timeframe, votes and
\* trade_details describe its "data" dict (has_data is FALSE for data = {}).
\* timestamp is datetime.now().isoformat() at the return.
no_action_result(reasoning) ==
    [agent |-> "PortfolioManager", timestamp |-> "t_result",
     recommendation |-> "no_action", confidence |-> 50, reasoning |-> reasoning,
     has_data |-> FALSE, symbol |-> "", timeframe |-> "", votes |-> NoVotes,
     trade_details |-> EmptyDict]

EnvRecords == [rows : RowChoices, atr : AtrChoices, mom : MomChoices]

\* Step 1 (lines 116-141): research, then the choice of the top candidate
PM_Research ==
    /\ rpc = "cycle"
    /\ pc = "research"
    /\ \E connected \in BOOLEAN, env \in [1 .. Len(cached_instruments) -> EnvRecords] :
         LET cands == research_candidates(cached_instruments, connected, env, top_k_fallback)
             found == find_opportunities(cached_instruments, connected, env, top_k_fallback)
         IN /\ candidates' = cands
            /\ opps' = found
            /\ calls' = Append(calls, Call("research", "", ""))
            /\ IF found = << >>
               THEN /\ result' = Some(no_action_result("No trading opportunities identified"))
                    /\ pc' = "done"
                    /\ UNCHANGED << symbol, tf >>
               ELSE LET top == pick_top(found)
                    IN /\ symbol' = top.symbol
                       /\ tf' = IF top.timeframe = "" THEN default_tf ELSE top.timeframe
                       /\ IF top.symbol = ""
                          THEN /\ result' = Some(no_action_result(
                                      "Research returned an invalid candidate (missing symbol)"))
                               /\ pc' = "done"
                          ELSE /\ result' = result
                               /\ pc' = "technical"
    /\ UNCHANGED << cfg_vars, votes, tech_conf, majority, pre_risk, decision,
                    proposed_trade, risk_res, trade_details, rk_vars, exec_vars,
                    risk_case, log_vars >>

\* Step 2 (lines 143-147)
PM_Technical ==
    /\ pc = "technical"
    /\ \E data_state \in TechDataStates, overall \in OverallSignals, llm \in LLMReplies :
         LET tech_res == TechnicalAgent_analyze(symbol, data_state, overall, llm)
         IN /\ votes' = [votes EXCEPT !.tech = tech_res.recommendation]
            /\ tech_conf' = tech_res.confidence
            /\ IF TechnicalAgent_logs(symbol, data_state, overall, llm)
               THEN log_decision("TechnicalAgent", tech_res)
               ELSE UNCHANGED mem_vars
    /\ calls' = Append(calls, Call("technical", symbol, tf))
    /\ pc' = "fundamental"
    /\ UNCHANGED << cfg_vars, candidates, opps, symbol, tf, majority, pre_risk, decision,
                    proposed_trade, risk_res, trade_details, result, obs_vars, exec_vars,
                    risk_case, log_vars >>

\* Step 3 (lines 149-152)
PM_Fundamental ==
    /\ pc = "fundamental"
    /\ \E raises \in BOOLEAN, summary_rec \in FundSummaryRecs, llm \in AnalystReplies :
         LET fund_res == FundamentalAgent_analyze(symbol, raises, summary_rec, llm)
         IN /\ votes' = [votes EXCEPT !.fund = fund_res.recommendation]
            /\ IF FundamentalAgent_logs(symbol, raises)
               THEN log_decision("FundamentalAgent", fund_res)
               ELSE UNCHANGED mem_vars
    /\ calls' = Append(calls, Call("fundamental", symbol, ""))
    /\ pc' = "sentiment"
    /\ UNCHANGED << cfg_vars, candidates, opps, symbol, tf, tech_conf, majority, pre_risk,
                    decision, proposed_trade, risk_res, trade_details, result, obs_vars,
                    exec_vars, risk_case, log_vars >>

\* Step 4 (lines 154-157)
PM_Sentiment ==
    /\ pc = "sentiment"
    /\ \E raises \in BOOLEAN, overall_signal \in SentimentSignals,
          events \in CalendarStates, llm \in AnalystReplies :
         LET sent_res == SentimentAgent_analyze(symbol, raises, overall_signal, events, 0,
                                                llm)
         IN /\ votes' = [votes EXCEPT !.sent = sent_res.recommendation]
            /\ IF SentimentAgent_logs(symbol, raises)
               THEN log_decision("SentimentAgent",
                                 SentimentAgent_result(overall_signal, events, 0, llm))
               ELSE UNCHANGED mem_vars
    /\ calls' = Append(calls, Call("sentiment", symbol, ""))
    /\ pc' = "aggregate"
    /\ UNCHANGED << cfg_vars, candidates, opps, symbol, tf, tech_conf, majority, pre_risk,
                    decision, proposed_trade, risk_res, trade_details, result, obs_vars,
                    exec_vars, risk_case, log_vars >>

\* Step 5 and the optional fallback (lines 159-179)
PM_Aggregate ==
    /\ pc = "aggregate"
    /\ LET m == majority_vote(<< votes.tech, votes.fund, votes.sent >>)
           d == tech_only_fallback(m, trade_on_tech_alone, votes.tech, tech_conf,
                                   min_tech_conf)
       IN /\ majority' = m
          /\ pre_risk' = d
          /\ decision' = d
    /\ pc' = "risk"
    /\ UNCHANGED << cfg_vars, candidates, opps, symbol, tf, votes, tech_conf,
                    proposed_trade, risk_res, trade_details, result, calls, rk_vars,
                    exec_vars, risk_case, log_vars >>

Accounts == [balance : {50, 1000}, equity : {500, 1000}, margin_level : {0}]
ProfitLists == { << >>, << -60, 40 >> }
PeakChoices == {0}

\* What RiskAgent.analyze gathers for its checks, classified: "clean" is an
\* account of balance 1000 and equity 1000 with no margin in use, no closed
\* trade today, no recorded peak, no open position, and a provider that does
\* not answer reject; "no_account" is get_account_info() returning nothing
risk_case_of(account_info, profits, peak, positions, llm) ==
    IF account_info = None THEN "no_account"
    ELSE
    IF /\ account_info = Some([balance |-> 1000, equity |-> 1000, margin_level |-> 0])
       /\ profits = << >>
       /\ peak = 0
       /\ positions = << >>
       /\ risk_analyze_with_llm(llm).rec \notin { Some("reject"), Some(NullRec) }
    THEN "clean" ELSE "other"

\* the provider replies the Risk Agent is run against inside the pipeline
RiskGateReplies ==
    { [kind |-> "unavailable", rec |-> None, conf |-> 0] }
    \cup [kind : {"parsed"}, rec : {Some("approve"), Some("reject")}, conf : {65}]

\* Step 6 (lines 181-196)
PM_RiskGate ==
    /\ pc = "risk"
    /\ IF needs_risk_gate(decision.final)
       THEN \E account_info \in {None} \cup { Some(a) : a \in Accounts },
               profits \in ProfitLists, peak \in PeakChoices,
               positions \in SeqsUpTo({ i.symbol : i \in Instruments }, MaxPositions),
               llm \in RiskGateReplies :
              LET trade == make_proposed_trade(symbol, tf, decision)
                  res == RiskAgent_analyze(Some(trade), account_info, profits, peak,
                                           positions, llm)
              IN /\ proposed_trade' = Some(trade)
                 /\ risk_res' = Some(res)
                 /\ risk_case' = risk_case_of(account_info, profits, peak, positions, llm)
                 /\ calls' = Append(calls, Call("risk", symbol, tf))
                 /\ decision' = risk_gate(decision, res.recommendation)
                 /\ IF RiskAgent_logs(Some(trade), account_info, profits, peak, positions,
                                      llm)
                    THEN log_decision("RiskAgent", res)
                    ELSE UNCHANGED mem_vars
       ELSE UNCHANGED << proposed_trade, risk_res, risk_case, calls, decision, mem_vars >>
    /\ pc' = "execute"
    /\ UNCHANGED << cfg_vars, candidates, opps, symbol, tf, votes, tech_conf, majority,
                    pre_risk, trade_details, result, obs_vars, exec_vars, log_vars >>

\* line 212: recommendation=final if final in ("buy", "sell") else "hold"
returned_recommendation(final) ==
    IF final \in {"buy", "sell"} THEN final ELSE "hold"

\* lines 211-216: the AnalysisResult of an analysed candidate
analysed_result(d, sym, timeframe, vts, details) ==
    [agent |-> "PortfolioManager", timestamp |-> "t_result",
     recommendation |-> returned_recommendation(d.final),
     confidence |-> d.conf, reasoning |-> d.reason,
     has_data |-> TRUE, symbol |-> sym, timeframe |-> timeframe,
     votes |-> vts, trade_details |-> details]

\* line 201: exec_payload; PM_TEST_LOT is unset
exec_payload(sym, final, timeframe) ==
    [instrument |-> sym, action |-> final, timeframe |-> timeframe]

\* Step 7 and the return (lines 198-216)
PM_ExecuteReturn ==
    /\ pc = "execute"
    /\ LET executes == needs_execution(decision.final)
           res == ExecutionAgent_analyze(exec_payload(symbol, decision.final, tf))
           details == IF executes THEN trade_details_of(res) ELSE EmptyDict
       IN /\ trade_details' = details
          /\ exec_res' = IF executes THEN Some(res) ELSE None
          /\ db_trades' = IF executes /\ res.trade_inserted THEN db_trades + 1
                          ELSE db_trades
          /\ calls' = IF executes THEN Append(calls, Call("execution", symbol, tf))
                      ELSE calls
          /\ result' = Some(analysed_result(decision, symbol, tf, votes, details))
    /\ pc' = "done"
    /\ UNCHANGED << cfg_vars, candidates, opps, symbol, tf, votes, tech_conf, majority,
                    pre_risk, decision, proposed_trade, risk_res, rk_vars, risk_case,
                    log_vars >>

\* ------------------------------------------------------------------ runner
\* new_run_id handing out the previous cycle's id again
new_run_id_reuse(last) == IF last = 0 THEN 1 ELSE last

\* uuid.uuid4(): a fresh id; the ids handed out are 1, 2, 3, ...
new_run_id(last) == last + 1

\* lines 83 and 101, then the entry of run_once and of pm.analyze
Runner_NewCycle ==
    /\ rpc = "start"
    /\ run_id < MaxCycles
    /\ run_id' = new_run_id(run_id)
    /\ rpc' = "cycle"
    /\ pc' = "research"
    /\ candidates' = << >>
    /\ opps' = << >>
    /\ symbol' = ""
    /\ tf' = ""
    /\ votes' = NoVotes
    /\ tech_conf' = 0
    /\ majority' = NoDecision
    /\ pre_risk' = NoDecision
    /\ decision' = NoDecision
    /\ proposed_trade' = None
    /\ risk_res' = None
    /\ trade_details' = EmptyDict
    /\ result' = None
    /\ calls' = << >>
    /\ exec_res' = None
    /\ risk_case' = "none"
    /\ UNCHANGED << cfg_vars, rk_vars, db_trades, journal, decisions_file >>

\* the top-level keys format_analysis_result sets
ResultKeys == {"agent", "recommendation", "confidence", "reasoning", "data", "timestamp"}

\* line 20: result.get("symbol") or "MULTI"
run_once_symbol(res) == IF "symbol" \in ResultKeys THEN res.symbol ELSE "MULTI"

\* lines 21-26: decision_obj; the data dict is carried field by field
decision_obj(res) ==
    [recommendation |-> res.recommendation, confidence |-> res.confidence,
     reasoning |-> res.reasoning,
     has_data |-> res.has_data, symbol |-> res.symbol, timeframe |-> res.timeframe,
     votes |-> res.votes, trade_details |-> res.trade_details]

\* A journal line.  ts is _now_iso() at the write.
JournalRecord(type, id, sym, dec, ord, err) ==
    [ts |-> "t_log", type |-> type, run_id |-> id, symbol |-> sym,
     decision |-> dec, order |-> ord, error |-> err]

\* AuditLogger.log_decision's record
decision_record(id, res) ==
    JournalRecord("decision", id, run_once_symbol(res), Some(decision_obj(res)), None, "")

\* str(x) of a value that is None or a string
py_str(x) == IF x = None THEN "None" ELSE x[1]

\* bool(x) of a ticket: None and 0 are false
py_bool(x) == x # None /\ x[1] # 0

\* AuditLogger.log_order's record as run_once fills it (lines 46-61).  The
\* values of trade_details are None or Some(value); an absent status or
\* message is the empty string before str()
order_record(id, res) ==
    LET trade == res.trade_details
        ticket == dict_get(trade, "ticket", None)
        status == Lower(py_str(dict_get(trade, "status", Some(""))))
    IN JournalRecord(
         "order", id,
         IF "symbol" \in DOMAIN trade THEN trade["symbol"] ELSE run_once_symbol(res),
         None,
         Some([ticket |-> ticket,
               status |-> IF status # "" THEN status
                          ELSE IF py_bool(ticket) THEN "submitted" ELSE "unknown",
               message |-> py_str(dict_get(trade, "message", Some("")))]),
         "")

\* AuditLogger.log_llm_call's record.  Nothing in the repository calls
\* log_llm_call, so no step of the runner writes it
llm_call_record(id) == JournalRecord("llm_call", id, "", None, None, "")

\* main's except branch, lines 88-93
runner_error_record(id) == JournalRecord("runner_error", id, "", None, None, "str(e)")

\* which file write of run_once raises OSError, if any
IOOutcomes == {"ok", "decisions_write_fails", "journal_write_fails", "orders_write_fails"}

\* run_once after pm.analyze returned (lines 19-65): log_decision writes
\* decisions.jsonl, then the journal; log_order runs for a non-empty
\* trade_details and writes orders.jsonl, orders.csv, then the journal
Runner_LogResult ==
    /\ rpc = "cycle"
    /\ pc = "done"
    /\ \E io \in IOOutcomes :
         LET res == result[1]
             drec == decision_record(run_id, res)
             trade == res.trade_details
         IN /\ decisions_file' = IF io = "decisions_write_fails" THEN decisions_file
                                 ELSE Append(decisions_file, drec)
            /\ journal' =
                 IF io \in {"decisions_write_fails", "journal_write_fails"} THEN journal
                 ELSE IF trade # EmptyDict /\ io = "ok"
                      THEN journal \o << drec, order_record(run_id, res) >>
                      ELSE Append(journal, drec)
            /\ rpc' = IF io = "ok" \/ (io = "orders_write_fails" /\ trade = EmptyDict)
                      THEN "returned" ELSE "raised"
    /\ UNCHANGED << cfg_vars, pm_vars, rk_vars, db_trades, run_id >>

\* single pass (lines 100-102): main returns run_once's value, or the
\* exception leaves main
Main_SinglePassEnd ==
    /\ mode = "single"
    /\ rpc \in {"returned", "raised"}
    /\ rpc' = IF rpc = "returned" THEN "exit" ELSE "crashed"
    /\ UNCHANGED << cfg_vars, pm_vars, rk_vars, db_trades, run_id, journal, decisions_file >>

\* continuous mode, line 95: time.sleep after run_once returned or after the
\* handler ran, then the next iteration
Main_LoopSleep ==
    /\ mode = "continuous"
    /\ rpc \in {"returned", "handled"}
    /\ rpc' = "start"
    /\ UNCHANGED << cfg_vars, pm_vars, rk_vars, db_trades, run_id, journal, decisions_file >>

\* continuous mode, run_once raised (lines 86-94): the handler appends a
\* runner_error line to the journal and goes on to the sleep of line 95; an
\* OSError from that write is raised inside the handler and leaves the while
\* loop and main
Main_LoopHandleError ==
    /\ mode = "continuous"
    /\ rpc = "raised"
    /\ \E write_ok \in BOOLEAN :
         IF write_ok
         THEN /\ journal' = Append(journal, runner_error_record(run_id))
              /\ rpc' = "handled"
         ELSE /\ journal' = journal
              /\ rpc' = "crashed"
    /\ UNCHANGED << cfg_vars, pm_vars, rk_vars, db_trades, run_id, decisions_file >>

\* continuous mode, lines 96-98: Ctrl+C inside the while loop, at line 83,
\* inside run_once (KeyboardInterrupt is no Exception, so neither the agents
\* nor line 86 catch it), inside the handler before its write, or during the
\* sleep that follows run_once or the handler, ends main with exit status 0
\* and no further line.  Inside run_once's log_decision it can fall between
\* the write of decisions.jsonl and that of the journal
Main_KeyboardInterrupt ==
    /\ mode = "continuous"
    /\ rpc \in {"start", "cycle", "returned", "raised", "handled"}
    /\ rpc' = "exit"
    /\ \/ UNCHANGED decisions_file
       \/ /\ rpc = "cycle" /\ pc = "done"
          /\ decisions_file' = Append(decisions_file, decision_record(run_id, result[1]))
    /\ UNCHANGED << cfg_vars, pm_vars, rk_vars, db_trades, run_id, journal >>

Next ==
    \/ Runner_NewCycle
    \/ PM_Research
    \/ PM_Technical
    \/ PM_Fundamental
    \/ PM_Sentiment
    \/ PM_Aggregate
    \/ PM_RiskGate
    \/ PM_ExecuteReturn
    \/ Runner_LogResult
    \/ Main_SinglePassEnd

Spec == Init /\ [][Next]_vars

\* --------------------------------------------- ExecutionAgent.analyze alone
\* the trade_decision dicts a caller may hand over
TradeDecisions ==
    { EmptyDict }
    \cup { [instrument |-> i.symbol, action |-> a] :
             i \in Instruments, a \in {"buy", "sell"} }
    \cup { [instrument |-> i.symbol, action |-> a, volume |-> 1] :
             i \in Instruments, a \in {"buy", "sell"} }
    \cup { [instrument |-> i.symbol, action |-> a, stop_loss |-> 1] :
             i \in Instruments, a \in {"buy", "sell"} }

\* what ExecutionAgent.analyze is called with: the payload line 201 builds
\* for a buy or sell, with or without PM_TEST_LOT, or a dict under
\* 'trade_decision'; symbol_info is what get_symbol_info would answer
ExecutionInputs ==
    [payload : { exec_payload(i.symbol, a, t) :
                   i \in Instruments, a \in {"buy", "sell"}, t \in {"H1", "M5"} }
               \cup { [instrument |-> i.symbol, action |-> a, timeframe |-> t, lot |-> 1] :
                        i \in Instruments, a \in {"buy", "sell"}, t \in {"H1", "M5"} }
               \cup { [trade_decision |-> td] : td \in TradeDecisions },
     symbol_info : BOOLEAN]

InitExecution ==
    /\ trade_on_tech_alone = FALSE
    /\ min_tech_conf = 65
    /\ top_k_fallback = 0
    /\ cached_instruments = << >>
    /\ config_file = "ok"
    /\ mode = "single"
    /\ CycleStart
    /\ LogsStart
    /\ rk_in = None
    /\ rk_out = "none"
    /\ ag_in = None
    /\ ag_out = None
    /\ fn_in \in { Some(i) : i \in ExecutionInputs }
    /\ fn_out = None
    /\ MemoryStart

\* one call of ExecutionAgent.analyze: its result, and the trades row its
\* insert_trade wrote, if it got that far
Apply_ExecutionAgent ==
    /\ fn_in # None /\ fn_out = None
    /\ LET res == ExecutionAgent_analyze(fn_in[1].payload)
       IN /\ fn_out' = Some(res)
          /\ db_trades' = IF res.trade_inserted THEN db_trades + 1 ELSE db_trades
    /\ UNCHANGED << cfg_vars, pm_vars, rpc, run_id, journal, decisions_file, rk_in, rk_out,
                    ag_in, ag_out, fn_in, mem_vars >>

NextExecution == Apply_ExecutionAgent

SpecExecution == InitExecution /\ [][NextExecution]_vars

\* ------------------------------------------------------- continuous mode
\* main() run with --interval > 0 and no instrument enabled: every cycle is
\* Research, the no_action return and the audit writes
InitLoop ==
    /\ trade_on_tech_alone = FALSE
    /\ min_tech_conf = 65
    /\ top_k_fallback \in TopKChoices
    /\ config_file \in ConfigFileStates
    /\ cached_instruments = load_instruments_for_pipeline(config_file, << >>)
    /\ mode = "continuous"
    /\ CycleStart
    /\ LogsStart
    /\ rk_in = None
    /\ rk_out = "none"
    /\ ag_in = None
    /\ ag_out = None
    /\ FnStart
    /\ MemoryStart

NextLoop ==
    \/ Runner_NewCycle
    \/ PM_Research
    \/ Runner_LogResult
    \/ Main_LoopSleep
    \/ Main_LoopHandleError
    \/ Main_KeyboardInterrupt

SpecLoop == InitLoop /\ [][NextLoop]_vars

\* ------------------------------------- RiskAgent._should_proceed in isolation
CheckSets == [sufficient_balance : BOOLEAN, equity_check : BOOLEAN,
              margin_level_ok : BOOLEAN, daily_loss_ok : BOOLEAN,
              drawdown_ok : BOOLEAN]
PositionChecks == [positions_ok : BOOLEAN, instrument_ok : BOOLEAN]
RiskLLMRecs == { None, Some(NullRec), Some("approve"), Some("reject"),
                 Some("REJECT"), Some("Reject") }

InitRisk ==
    /\ trade_on_tech_alone = FALSE
    /\ min_tech_conf = 65
    /\ top_k_fallback = 0
    /\ cached_instruments = << >>
    /\ config_file = "ok"
    /\ mode = "single"
    /\ CycleStart
    /\ LogsStart
    /\ rk_in \in { Some([risk_checks |-> c, position_check |-> p,
                         llm_analysis |-> [rec |-> r, conf |-> 65]]) :
                   c \in CheckSets, p \in PositionChecks, r \in RiskLLMRecs }
    /\ rk_out = "none"
    /\ ag_in = None
    /\ ag_out = None
    /\ FnStart
    /\ MemoryStart

Apply_should_proceed ==
    /\ rk_in # None
    /\ rk_out = "none"
    /\ rk_out' = should_proceed(rk_in[1].risk_checks, rk_in[1].position_check,
                                rk_in[1].llm_analysis)
    /\ UNCHANGED << cfg_vars, pm_vars, log_vars, db_trades, rk_in, ag_in, ag_out, fn_vars,
                    mem_vars >>

NextRisk == Apply_should_proceed

SpecRisk == InitRisk /\ [][NextRisk]_vars

\* --------------------------------------------- one analyst in isolation
\* An analyst's call: the instrument it is given, whether the data source or
\* the local computation raises (data_state "exception" for Technical, raises
\* for the others), the local signals and the provider's reply
AgentInputs ==
    [agent : {"technical"}, instrument : {"", "EURUSD"}, data_state : TechDataStates,
     raises : {FALSE}, overall : OverallSignals, summary_rec : {"neutral"},
     sent_signal : {"neutral"}, events : { << >> }, llm : LLMReplies]
    \cup
    [agent : {"fundamental"}, instrument : {"", "EURUSD"}, data_state : {"ok"},
     raises : BOOLEAN, overall : {"neutral"}, summary_rec : FundSummaryRecs,
     sent_signal : {"neutral"}, events : { << >> }, llm : LLMReplies]
    \cup
    [agent : {"sentiment"}, instrument : {"", "EURUSD"}, data_state : {"ok"},
     raises : BOOLEAN, overall : {"neutral"}, summary_rec : {"neutral"},
     sent_signal : SentimentSignals, events : CalendarStates, llm : LLMReplies]

\* the Risk Agent's call: the proposed trade, the account state MT5 reports and
\* the provider's reply
RiskAgentReplies ==
    { [kind |-> "unavailable", rec |-> None, conf |-> 0],
      [kind |-> "raise", rec |-> None, conf |-> 0] }
    \cup [kind : {"parsed"}, rec : RiskLLMRecs, conf : {65}]
RiskAgentInputs ==
    [proposed_trade : { None, Some(make_proposed_trade("EURUSD", "H1",
                                 [final |-> "buy", conf |-> 65, reason |-> "majority"])) },
     account_info : {None} \cup { Some(a) : a \in Accounts },
     profits : ProfitLists, peak : PeakChoices,
     positions : SeqsUpTo({ i.symbol : i \in Instruments }, MaxPositions),
     llm : RiskAgentReplies]

InitAgents ==
    /\ trade_on_tech_alone = FALSE
    /\ min_tech_conf = 65
    /\ top_k_fallback = 0
    /\ cached_instruments = << >>
    /\ config_file = "ok"
    /\ mode = "single"
    /\ CycleStart
    /\ LogsStart
    /\ rk_in = None
    /\ rk_out = "none"
    /\ \/ ag_in \in { Some(i) : i \in AgentInputs } /\ fn_in = None
       \/ ag_in = None /\ fn_in \in { Some(i) : i \in RiskAgentInputs }
    /\ ag_out = None
    /\ fn_out = None
    /\ MemoryStart



Apply_TechnicalAgent ==
    /\ ag_in # None /\ ag_out = None
    /\ ag_in[1].agent = "technical"
    /\ LET res == TechnicalAgent_analyze(ag_in[1].instrument, ag_in[1].data_state,
                                         ag_in[1].overall, ag_in[1].llm)
       IN /\ ag_out' = Some(res)
          /\ IF TechnicalAgent_logs(ag_in[1].instrument, ag_in[1].data_state,
                                    ag_in[1].overall, ag_in[1].llm)
             THEN log_decision("TechnicalAgent", res)
             ELSE UNCHANGED mem_vars
    /\ UNCHANGED << cfg_vars, pm_vars, log_vars, db_trades, rk_in, rk_out, ag_in, fn_vars >>

Apply_FundamentalAgent ==
    /\ ag_in # None /\ ag_out = None
    /\ ag_in[1].agent = "fundamental"
    /\ LET res == FundamentalAgent_analyze(ag_in[1].instrument, ag_in[1].raises,
                                           ag_in[1].summary_rec, ag_in[1].llm)
       IN /\ ag_out' = Some(res)
          /\ IF FundamentalAgent_logs(ag_in[1].instrument, ag_in[1].raises)
             THEN log_decision("FundamentalAgent", res)
             ELSE UNCHANGED mem_vars
    /\ UNCHANGED << cfg_vars, pm_vars, log_vars, db_trades, rk_in, rk_out, ag_in, fn_vars >>

Apply_SentimentAgent ==
    /\ ag_in # None /\ ag_out = None
    /\ ag_in[1].agent = "sentiment"
    /\ LET res == SentimentAgent_analyze(ag_in[1].instrument, ag_in[1].raises,
                                         ag_in[1].sent_signal, ag_in[1].events, 0,
                                         ag_in[1].llm)
       IN /\ ag_out' = Some(res)
          /\ IF SentimentAgent_logs(ag_in[1].instrument, ag_in[1].raises)
             THEN log_decision("SentimentAgent",
                               SentimentAgent_result(ag_in[1].sent_signal,
                                                     ag_in[1].events, 0, ag_in[1].llm))
             ELSE UNCHANGED mem_vars
    /\ UNCHANGED << cfg_vars, pm_vars, log_vars, db_trades, rk_in, rk_out, ag_in, fn_vars >>

Apply_RiskAgent ==
    /\ fn_in # None /\ fn_out = None
    /\ LET in == fn_in[1]
           res == RiskAgent_analyze(in.proposed_trade, in.account_info, in.profits,
                                    in.peak, in.positions, in.llm)
       IN /\ fn_out' = Some(res)
          /\ IF RiskAgent_logs(in.proposed_trade, in.account_info, in.profits, in.peak,
                               in.positions, in.llm)
             THEN log_decision("RiskAgent", res)
             ELSE UNCHANGED mem_vars
    /\ UNCHANGED << cfg_vars, pm_vars, log_vars, db_trades, rk_in, rk_out, ag_in, ag_out,
                    fn_in >>

NextAgents ==
    \/ Apply_TechnicalAgent
    \/ Apply_FundamentalAgent
    \/ Apply_SentimentAgent
    \/ Apply_RiskAgent

SpecAgents == InitAgents /\ [][NextAgents]_vars

\* ------------------------- TechnicalAgent._determine_recommendation alone
\* llm_analysis as _analyze_with_llm can hand it over: the recommendation
\* absent, JSON null or a string; confidences on both sides of 0.6
TechRecConfs == {0, 59, 60, 61, 100}
TechRecValues == RecValues \cup { Some("strong_buy") }
TechRecInputs == [overall : OverallSignals, rec : TechRecValues, conf : TechRecConfs]

InitTechRec ==
    /\ trade_on_tech_alone = FALSE
    /\ min_tech_conf = 65
    /\ top_k_fallback = 0
    /\ cached_instruments = << >>
    /\ config_file = "ok"
    /\ mode = "single"
    /\ CycleStart
    /\ LogsStart
    /\ rk_in = None
    /\ rk_out = "none"
    /\ ag_in = None
    /\ ag_out = None
    /\ fn_in \in { Some(i) : i \in TechRecInputs }
    /\ fn_out = None
    /\ MemoryStart

Apply_determine_recommendation ==
    /\ fn_in # None /\ fn_out = None
    /\ fn_out' = Some(determine_recommendation(fn_in[1].overall,
                          [rec |-> fn_in[1].rec, conf |-> fn_in[1].conf]))
    /\ UNCHANGED << cfg_vars, pm_vars, log_vars, db_trades, rk_in, rk_out, ag_in, ag_out,
                    fn_in, mem_vars >>

NextTechRec == Apply_determine_recommendation

SpecTechRec == InitTechRec /\ [][NextTechRec]_vars

\* ------------------------------- the economic calendar's pause, on its own
MaxEvents == 2

PauseProviderReplies ==
    { [kind |-> "unavailable", rec |-> None, conf |-> 0],
      [kind |-> "parsed", rec |-> Some("buy"), conf |-> 65] }

InitPause ==
    /\ trade_on_tech_alone = FALSE
    /\ min_tech_conf = 65
    /\ top_k_fallback = 0
    /\ cached_instruments = << >>
    /\ config_file = "ok"
    /\ mode = "single"
    /\ CycleStart
    /\ LogsStart
    /\ rk_in = None
    /\ rk_out = "none"
    /\ ag_in = None
    /\ ag_out = None
    /\ fn_in \in { Some([events |-> ev, overall_signal |-> "bullish", llm |-> l]) :
                   ev \in SeqsUpTo(CalendarEvents, MaxEvents),
                   l \in PauseProviderReplies }
    /\ fn_out = None
    /\ MemoryStart

\* SentimentAgent.analyze with the calendar it consults, now = minute 0
Apply_SentimentAgent_calendar ==
    /\ fn_in # None /\ fn_out = None
    /\ LET res == SentimentAgent_analyze("EURUSD", FALSE, fn_in[1].overall_signal,
                                         fn_in[1].events, 0, fn_in[1].llm)
       IN /\ fn_out' = Some(res)
          /\ IF SentimentAgent_logs("EURUSD", FALSE)
             THEN log_decision("SentimentAgent",
                               SentimentAgent_result(fn_in[1].overall_signal,
                                                     fn_in[1].events, 0, fn_in[1].llm))
             ELSE UNCHANGED mem_vars
    /\ UNCHANGED << cfg_vars, pm_vars, log_vars, db_trades, rk_in, rk_out, ag_in, ag_out,
                    fn_in >>

NextPause == Apply_SentimentAgent_calendar

SpecPause == InitPause /\ [][NextPause]_vars

\* ------------------- RiskAgent._perform_risk_checks and _get_daily_loss alone
\* accounts on both sides of equity = balance / 2, and the profits of the
\* deals closed in the last day; the Risk Agent has no peak-balance source
CheckAccounts == [balance : {50, 1000}, equity : {499, 500, 501, 1000}, margin_level : {0}]
CheckProfitLists == { << >>, << 40 >>, << -60 >>, << -60, 40 >>, << -30, -30 >> }
CheckInputs ==
    [fn : {"perform_risk_checks", "get_daily_loss"}, account_info : CheckAccounts,
     profits : CheckProfitLists, peak : {0, 1000}]

InitChecks ==
    /\ trade_on_tech_alone = FALSE
    /\ min_tech_conf = 65
    /\ top_k_fallback = 0
    /\ cached_instruments = << >>
    /\ config_file = "ok"
    /\ mode = "single"
    /\ CycleStart
    /\ LogsStart
    /\ rk_in = None
    /\ rk_out = "none"
    /\ ag_in = None
    /\ ag_out = None
    /\ fn_in \in { Some(i) : i \in CheckInputs }
    /\ fn_out = None
    /\ MemoryStart

Apply_perform_risk_checks ==
    /\ fn_in # None /\ fn_out = None
    /\ fn_in[1].fn = "perform_risk_checks"
    /\ fn_out' = Some(perform_risk_checks(fn_in[1].account_info, fn_in[1].profits,
                                          fn_in[1].peak))
    /\ UNCHANGED << cfg_vars, pm_vars, log_vars, db_trades, rk_in, rk_out, ag_in, ag_out,
                    fn_in, mem_vars >>

Apply_get_daily_loss ==
    /\ fn_in # None /\ fn_out = None
    /\ fn_in[1].fn = "get_daily_loss"
    /\ fn_out' = Some(get_daily_loss(fn_in[1].profits))
    /\ UNCHANGED << cfg_vars, pm_vars, log_vars, db_trades, rk_in, rk_out, ag_in, ag_out,
                    fn_in, mem_vars >>

NextChecks ==
    \/ Apply_perform_risk_checks
    \/ Apply_get_daily_loss

SpecChecks == InitChecks /\ [][NextChecks]_vars

\* -------------------------------- ResearchAgent.find_opportunities alone
\* the scan list, whether MT5 connects, what the market-data source yields
\* for each scan item and RESEARCH_TOP_K_FALLBACK
InitResearch ==
    /\ trade_on_tech_alone = FALSE
    /\ min_tech_conf = 65
    /\ top_k_fallback = 0
    /\ cached_instruments = << >>
    /\ config_file = "ok"
    /\ mode = "single"
    /\ CycleStart
    /\ LogsStart
    /\ rk_in = None
    /\ rk_out = "none"
    /\ ag_in = None
    /\ ag_out = None
    /\ fn_in \in { Some([instruments |-> q, connected |-> c, env |-> e, top_k |-> k]) :
                   q \in InstrumentLists, c \in BOOLEAN, k \in TopKChoices,
                   e \in UNION { [1 .. n -> EnvRecords] : n \in 0 .. MaxInstruments } }
    /\ Len(fn_in[1].instruments) = Len(fn_in[1].env)
    /\ fn_out = None
    /\ MemoryStart

Apply_find_opportunities ==
    /\ fn_in # None /\ fn_out = None
    /\ fn_out' = Some(find_opportunities(fn_in[1].instruments, fn_in[1].connected,
                                         fn_in[1].env, fn_in[1].top_k))
    /\ UNCHANGED << cfg_vars, pm_vars, log_vars, db_trades, rk_in, rk_out, ag_in, ag_out,
                    fn_in, mem_vars >>

NextResearch == Apply_find_opportunities

SpecResearch == InitResearch /\ [][NextResearch]_vars

\* ------------------------------------------------- one AgentMemory on its own
MaxMemoryOps == 3

\* the agents whose AgentMemory is called
MemoryAgents == {"TechnicalAgent", "RiskAgent"}

\* the k-th content stored: a dict json.dumps accepts
content_number(k) == [n |-> k]

\* one agent's memory after n <= max_short_term_items calls of store_decision,
\* the k-th storing content k: nothing has been dropped yet
ShortTermAfter(n) == [k \in 1 .. n |-> memory_item("decision", content_number(k))]

LongTermAfter(agent_name, n) ==
    [k \in 1 .. n |-> [agent_name |-> agent_name, memory_type |-> "decision",
                       content |-> json_dumps(content_number(k)), metadata |-> None]]

\* an empty memory, and memories one call short of full and full
StoredAlready == {0, max_short_term_items - 1, max_short_term_items}

InitMemory ==
    /\ trade_on_tech_alone = FALSE
    /\ min_tech_conf = 65
    /\ top_k_fallback = 0
    /\ cached_instruments = << >>
    /\ config_file = "ok"
    /\ mode = "single"
    /\ CycleStart
    /\ LogsStart
    /\ rk_in = None
    /\ rk_out = "none"
    /\ ag_in = None
    /\ ag_out = None
    /\ FnStart
    /\ \E n \in StoredAlready :
         /\ short_term_memory = [a \in AgentNames |->
                                   IF a = "TechnicalAgent" THEN ShortTermAfter(n)
                                   ELSE << >>]
         /\ long_term_memory = LongTermAfter("TechnicalAgent", n)
         /\ stored = short_term_memory
    /\ mem_ops = 0

\* the content of agent a's next call: the number of the item since its last
\* clear
next_content(a) == content_number(Len(stored[a]) + 1)

Memory_store_short_term ==
    /\ mem_ops < MaxMemoryOps
    /\ \E a \in MemoryAgents :
         /\ short_term_memory' =
              [short_term_memory EXCEPT ![a] = store_short_term(@, "note", next_content(a))]
         /\ stored' = [stored EXCEPT ![a] = Append(@, memory_item("note", next_content(a)))]
    /\ mem_ops' = mem_ops + 1
    /\ UNCHANGED << cfg_vars, pm_vars, log_vars, db_trades, rk_in, rk_out, ag_in, ag_out,
                    fn_vars, long_term_memory >>

Memory_store_decision ==
    /\ mem_ops < MaxMemoryOps
    /\ \E a \in MemoryAgents : log_decision(a, next_content(a))
    /\ UNCHANGED << cfg_vars, pm_vars, log_vars, db_trades, rk_in, rk_out, ag_in, ag_out,
                    fn_vars >>

Memory_store_observation ==
    /\ mem_ops < MaxMemoryOps
    /\ \E a \in MemoryAgents :
         /\ short_term_memory' =
              [short_term_memory EXCEPT
                 ![a] = store_short_term(@, "observation", next_content(a))]
         /\ stored' = [stored EXCEPT
                         ![a] = Append(@, memory_item("observation", next_content(a)))]
    /\ mem_ops' = mem_ops + 1
    /\ UNCHANGED << cfg_vars, pm_vars, log_vars, db_trades, rk_in, rk_out, ag_in, ag_out,
                    fn_vars, long_term_memory >>

Memory_clear_short_term ==
    /\ mem_ops < MaxMemoryOps
    /\ \E a \in MemoryAgents :
         /\ short_term_memory' = [short_term_memory EXCEPT ![a] = << >>]
         /\ stored' = [stored EXCEPT ![a] = << >>]
    /\ mem_ops' = mem_ops + 1
    /\ UNCHANGED << cfg_vars, pm_vars, log_vars, db_trades, rk_in, rk_out, ag_in, ag_out,
                    fn_vars, long_term_memory >>

\* store_long_term called on its own: a row of agent_memory, the short-term
\* list untouched
Memory_store_long_term ==
    /\ mem_ops < MaxMemoryOps
    /\ \E a \in MemoryAgents, memory_type \in {"decision", "observation"} :
         long_term_memory' = store_long_term(long_term_memory, a, memory_type,
                                             next_content(a))
    /\ mem_ops' = mem_ops + 1
    /\ UNCHANGED << cfg_vars, pm_vars, log_vars, db_trades, rk_in, rk_out, ag_in, ag_out,
                    fn_vars, short_term_memory, stored >>

\* store_insight (BaseAgent.store_insight hands it metadata or {}): a row of
\* type insight, the short-term list untouched
Memory_store_insight ==
    /\ mem_ops < MaxMemoryOps
    /\ \E a \in MemoryAgents,
          metadata \in {None, Some(EmptyDict), Some([k |-> 1])} :
         long_term_memory' = store_insight(long_term_memory, a,
                                           "momentum fades after news", metadata)
    /\ mem_ops' = mem_ops + 1
    /\ UNCHANGED << cfg_vars, pm_vars, log_vars, db_trades, rk_in, rk_out, ag_in, ag_out,
                    fn_vars, short_term_memory, stored >>

NextMemory ==
    \/ Memory_store_short_term
    \/ Memory_store_decision
    \/ Memory_store_observation
    \/ Memory_clear_short_term
    \/ Memory_store_long_term
    \/ Memory_store_insight

SpecMemory == InitMemory /\ [][NextMemory]_vars

\* ------------------------------------------------- one AuditLogger on its own
MaxAuditLines == 3

\* the AuditLogger of a cycle that has just begun: nothing written yet
InitAudit ==
    /\ trade_on_tech_alone = FALSE
    /\ min_tech_conf = 65
    /\ top_k_fallback = RESEARCH_TOP_K_FALLBACK
    /\ cached_instruments = << >>
    /\ config_file = "ok"
    /\ mode \in {"single", "continuous"}
    /\ CycleStart
    /\ rpc = "cycle"
    /\ run_id \in 1 .. 2
    /\ journal = << >>
    /\ decisions_file = << >>
    /\ db_trades = 0
    /\ rk_in = None
    /\ rk_out = "none"
    /\ ag_in = None
    /\ ag_out = None
    /\ FnStart
    /\ MemoryStart

\* log_llm_call: the record goes to decisions.jsonl and then to the journal;
\* an OSError from either open leaves the later write undone
AuditLogger_log_llm_call ==
    /\ Len(decisions_file) < MaxAuditLines /\ Len(journal) < MaxAuditLines
    /\ \E id \in 1 .. run_id,
          io \in {"ok", "decisions_write_fails", "journal_write_fails"} :
         /\ decisions_file' = IF io = "decisions_write_fails" THEN decisions_file
                               ELSE Append(decisions_file, llm_call_record(id))
         /\ journal' = IF io = "ok" THEN Append(journal, llm_call_record(id))
                        ELSE journal
    /\ UNCHANGED << cfg_vars, pm_vars, rk_vars, db_trades, rpc, run_id >>

\* log_decision with the symbol and decision it is handed
AuditLogger_log_decision ==
    /\ Len(decisions_file) < MaxAuditLines /\ Len(journal) < MaxAuditLines
    /\ \E id \in 1 .. run_id, sym \in {"MULTI", "EURUSD"},
          io \in {"ok", "decisions_write_fails", "journal_write_fails"} :
         LET rec == JournalRecord("decision", id, sym,
                                  Some([recommendation |-> "hold"]), None, "")
         IN /\ decisions_file' = IF io = "decisions_write_fails" THEN decisions_file
                                  ELSE Append(decisions_file, rec)
            /\ journal' = IF io = "ok" THEN Append(journal, rec) ELSE journal
    /\ UNCHANGED << cfg_vars, pm_vars, rk_vars, db_trades, rpc, run_id >>

\* log_order: orders.jsonl and orders.csv, then the journal
AuditLogger_log_order ==
    /\ Len(decisions_file) < MaxAuditLines /\ Len(journal) < MaxAuditLines
    /\ \E id \in 1 .. run_id, io \in {"ok", "orders_write_fails", "journal_write_fails"} :
         journal' = IF io = "ok"
                    THEN Append(journal,
                                JournalRecord("order", id, "EURUSD", None,
                                              Some([ticket |-> Some(7), status |-> "filled",
                                                    message |-> ""]), ""))
                    ELSE journal
    /\ UNCHANGED << cfg_vars, pm_vars, rk_vars, db_trades, rpc, run_id, decisions_file >>

NextAudit ==
    \/ AuditLogger_log_llm_call
    \/ AuditLogger_log_decision
    \/ AuditLogger_log_order

SpecAudit == InitAudit /\ [][NextAudit]_vars

\* -------------------------------------------------------------- properties
RiskCalled == risk_res # None
RiskRec == risk_res[1].recommendation
Returned == result # None
Res == result[1]
AgentCalls(a) == { i \in DOMAIN calls : calls[i].agent = a }
Analysed == pc = "done" /\ Res.has_data
AfterAggregate == pc \in {"risk", "execute"} \/ Analysed
AfterRisk == pc = "execute" \/ Analysed

\* C1: the final recommendation is buy (sell) only if the aggregation step
\* produced that direction and the Risk Agent returned approve for it; a hold
\* from aggregation stays hold; the risk stage keeps the direction or
\* downgrades it to hold, it never upgrades or flips it.
C1_RiskVetoAuthoritative ==
    /\ AfterRisk =>
         /\ decision.final \in {pre_risk.final, "hold"}
         /\ (decision.final \in {"buy", "sell"} =>
                RiskCalled /\ RiskRec = "approve")
    /\ (Returned /\ Res.has_data) =>
         /\ (Res.recommendation \in {"buy", "sell"} =>
                /\ pre_risk.final = Res.recommendation
                /\ RiskCalled /\ RiskRec = "approve")
         /\ (pre_risk.final = "hold" => Res.recommendation = "hold")
         /\ Res.recommendation \in {pre_risk.final, "hold"}

\* a cycle that proposed buy, consulted the Risk Agent and ended in hold
C1_Witness ==
    /\ Returned /\ Res.has_data
    /\ pre_risk.final = "buy"
    /\ RiskCalled /\ RiskRec # "approve"
    /\ Res.recommendation = "hold"

NumBuys == (IF votes.tech = "buy" THEN 1 ELSE 0) + (IF votes.fund = "buy" THEN 1 ELSE 0)
           + (IF votes.sent = "buy" THEN 1 ELSE 0)
NumSells == (IF votes.tech = "sell" THEN 1 ELSE 0) + (IF votes.fund = "sell" THEN 1 ELSE 0)
            + (IF votes.sent = "sell" THEN 1 ELSE 0)

\* C2: the majority step yields buy with confidence 0.6 iff buy-count >= 2
\* and buy-count > sell-count, sell with 0.6 iff the symmetric condition, and
\* hold with 0.5 otherwise; other votes count toward neither side.
C2_MajorityRule ==
    AfterAggregate =>
      /\ (majority.final = "buy" <=> (NumBuys >= 2 /\ NumBuys > NumSells))
      /\ (majority.final = "sell" <=> (NumSells >= 2 /\ NumSells > NumBuys))
      /\ (majority.final = "hold" <=>
             ~(NumBuys >= 2 /\ NumBuys > NumSells) /\ ~(NumSells >= 2 /\ NumSells > NumBuys))
      /\ majority.final \in {"buy", "sell", "hold"}
      /\ majority.conf = (IF majority.final = "hold" THEN 50 ELSE 60)

\* two buy votes against one sell vote give a buy majority at 0.6
C2_Witness ==
    /\ pc = "risk"
    /\ votes.tech = "buy" /\ votes.fund = "buy" /\ votes.sent = "sell"
    /\ majority.final = "buy" /\ majority.conf = 60

\* C3: with a hold majority the pre-risk decision is (tech_rec, tech_conf) iff
\* the fallback flag is on, tech_rec is buy or sell and tech_conf >=
\* min_tech_conf; otherwise it stays hold at 0.5.  A buy/sell majority is left
\* unchanged at 0.6.
C3_FallbackGating ==
    AfterAggregate =>
      LET fires == /\ trade_on_tech_alone
                   /\ votes.tech \in {"buy", "sell"}
                   /\ tech_conf >= min_tech_conf
      IN /\ (majority.final = "hold" /\ fires) =>
               (pre_risk.final = votes.tech /\ pre_risk.conf = tech_conf)
         /\ (majority.final = "hold" /\ ~fires) =>
               (pre_risk.final = "hold" /\ pre_risk.conf = 50)
         /\ majority.final \in {"buy", "sell"} =>
               (pre_risk.final = majority.final /\ pre_risk.conf = 60
                /\ pre_risk.reason = majority.reason)

\* the fallback firing exactly at the threshold
C3_Witness ==
    /\ pc = "risk"
    /\ majority.final = "hold"
    /\ trade_on_tech_alone
    /\ votes.tech = "sell"
    /\ tech_conf = min_tech_conf
    /\ pre_risk.final = "sell" /\ pre_risk.conf = tech_conf

\* C4: when the Risk Gate rejects a proposed buy/sell, the final decision is
\* hold with confidence 0.5 and reasoning "Risk manager veto", the Execution
\* Agent is not invoked and trade_details is empty.
C4_VetoOutcome ==
    (Returned /\ RiskCalled /\ RiskRec = "reject") =>
      /\ Res.recommendation = "hold"
      /\ Res.confidence = 50
      /\ Res.reasoning = "Risk manager veto"
      /\ AgentCalls("execution") = {}
      /\ Res.trade_details = EmptyDict
      /\ trade_details = EmptyDict

\* a tech-only sell at confidence 0.65 vetoed by the Risk Agent
C4_Witness ==
    /\ Returned /\ RiskCalled /\ RiskRec = "reject"
    /\ pre_risk.final = "sell" /\ pre_risk.conf = 65
    /\ Res.recommendation = "hold" /\ Res.confidence = 50

AllSevenChecks(in) ==
    /\ in.risk_checks.sufficient_balance
    /\ in.risk_checks.equity_check
    /\ in.risk_checks.margin_level_ok
    /\ in.risk_checks.daily_loss_ok
    /\ in.risk_checks.drawdown_ok
    /\ in.position_check.positions_ok
    /\ in.position_check.instrument_ok

\* the provider's recommendation reads "reject" in some letter case
ProviderSaysReject(in) ==
    in.llm_analysis.rec \in { Some("reject"), Some("REJECT"), Some("Reject") }

C6_RiskOutputApproveOrReject ==
    RiskCalled => RiskRec \in {"approve", "reject"}

\* C7: the Risk Agent is invoked at most once per cycle and only for a buy or
\* sell pre-risk decision; the proposed trade carries the analysed symbol and
\* timeframe, that direction, and the decision's confidence and reason; for a
\* hold decision there is no invocation and no proposed trade.
C7_RiskInvocation ==
    LET n == Cardinality(AgentCalls("risk"))
    IN /\ n <= 1
       /\ (n = 1) <=> (AfterRisk /\ pre_risk.final \in {"buy", "sell"})
       /\ (proposed_trade # None) <=> (n = 1)
       /\ RiskCalled <=> (n = 1)
       /\ proposed_trade # None =>
            /\ proposed_trade[1].instrument = symbol
            /\ proposed_trade[1].timeframe = tf
            /\ proposed_trade[1].direction = pre_risk.final
            /\ proposed_trade[1].direction \in {"buy", "sell"}
            /\ proposed_trade[1].confidence = pre_risk.conf
            /\ proposed_trade[1].source = pre_risk.reason
       /\ \A i \in AgentCalls("risk") :
            calls[i].instrument = symbol /\ calls[i].timeframe = tf

\* a finished cycle that consulted the Risk Agent for a majority buy
C7_Witness ==
    /\ Analysed
    /\ proposed_trade # None
    /\ proposed_trade[1].direction = "buy"
    /\ proposed_trade[1].confidence = 60
    /\ proposed_trade[1].source = "Majority voting across agents"
    /\ Cardinality(AgentCalls("risk")) = 1

\* C8: when Research returns no candidates the cycle returns no_action without
\* invoking any other agent, and completes normally.
C8_NoOpportunities ==
    (pc # "research" /\ opps = << >>) =>
      /\ pc = "done"
      /\ Returned
      /\ Res.recommendation = "no_action"
      /\ calls = << Call("research", "", "") >>
      /\ ~RiskCalled /\ proposed_trade = None /\ votes = NoVotes

\* instruments were configured, nothing was admitted and the cycle ended
C8_Witness ==
    /\ pc = "done"
    /\ cached_instruments # << >>
    /\ top_k_fallback = 0
    /\ opps = << >>
    /\ Res.recommendation = "no_action"

Rank(a) ==
    CASE a = "research" -> 1
      [] a = "technical" -> 2
      [] a = "fundamental" -> 3
      [] a = "sentiment" -> 4
      [] a = "risk" -> 5
      [] a = "execution" -> 6

\* C9: agents are invoked in the order Research, Technical, Fundamental,
\* Sentiment, Risk, Execution, each at most once; when Risk is invoked the
\* three analysis agents have each run exactly once and the three votes are
\* present; Execution is invoked only after Risk has returned.
C9_StageOrder ==
    /\ \A i, j \in DOMAIN calls : i < j => Rank(calls[i].agent) < Rank(calls[j].agent)
    /\ \A i \in DOMAIN calls :
         IF i = 1 THEN calls[i].agent = "research"
         ELSE \/ Rank(calls[i].agent) = Rank(calls[i - 1].agent) + 1
    /\ (pc = "research") <=> (calls = << >>)
    /\ AgentCalls("risk") # {} =>
         /\ Cardinality(AgentCalls("technical")) = 1
         /\ Cardinality(AgentCalls("fundamental")) = 1
         /\ Cardinality(AgentCalls("sentiment")) = 1
         /\ DOMAIN votes = {"tech", "fund", "sent"}
         /\ votes.tech # "" /\ votes.fund # "" /\ votes.sent # ""
    /\ AgentCalls("execution") # {} => (AgentCalls("risk") # {} /\ RiskCalled)

\* a finished cycle that went through Research, the three analysts and Risk
C9_Witness ==
    /\ Analysed
    /\ Len(calls) = 5
    /\ calls[5].agent = "risk"
    /\ RiskCalled

MaxPriority(found) ==
    CHOOSE m \in { found[i].priority : i \in DOMAIN found } :
      \A i \in DOMAIN found : found[i].priority <= m

\* the candidate with the maximum priority that was scanned first
EarliestBest(found) ==
    CHOOSE c \in { found[i] : i \in DOMAIN found } :
      /\ c.priority = MaxPriority(found)
      /\ \A i \in DOMAIN found :
           found[i].priority = MaxPriority(found) => c.idx <= found[i].idx

\* C10: with a non-empty candidate list exactly one candidate is analysed, one
\* of maximum priority and the earliest of those in scan order; every later
\* stage and the final decision refer to its symbol and timeframe.
C10_TopCandidate ==
    (pc # "research" /\ opps # << >>) =>
      LET top == EarliestBest(opps)
      IN /\ symbol = top.symbol
         /\ tf = top.timeframe
         /\ \A i \in DOMAIN calls :
              calls[i].agent # "research" =>
                /\ calls[i].instrument = top.symbol
                /\ calls[i].agent \in {"technical", "risk", "execution"} =>
                     calls[i].timeframe = top.timeframe
         /\ proposed_trade # None =>
              (proposed_trade[1].instrument = top.symbol
               /\ proposed_trade[1].timeframe = top.timeframe)
         /\ Returned =>
              (Res.has_data /\ Res.symbol = top.symbol /\ Res.timeframe = top.timeframe)

\* two candidates of equal priority, the cycle finished on the first scanned
C10_Witness ==
    /\ Analysed
    /\ Len(opps) = 2
    /\ opps[1].priority = opps[2].priority
    /\ Res.symbol = cached_instruments[1].symbol
    /\ RiskCalled

ExecCalled == exec_res # None
JournalOf(type, id) ==
    { i \in DOMAIN journal : journal[i].type = type /\ journal[i].run_id = id }

C13_EndToEndApproval ==
    (Analysed /\ NumBuys >= 2 /\ NumSells = 0 /\ risk_case = "clean") =>
      /\ Res.recommendation = "buy"
      /\ Res.confidence = 60
      /\ {"ticket", "price"} \subseteq DOMAIN Res.trade_details

C15_LoopSurvives ==
    /\ rpc # "crashed"
    /\ (rpc = "start" /\ run_id > 0) =>
         (JournalOf("decision", run_id) # {} \/ JournalOf("runner_error", run_id) # {})

\* C16: cycles do not overlap and each has its own run id: when a run id is
\* generated every journal record carries an older id, records appear in run id
\* order, a cycle that completed without exception has exactly one decision
\* record in the journal, no cycle has more than one, and a cycle's decision
\* record precedes its order record.
C16_CyclesSequential ==
    /\ \A i, j \in DOMAIN journal : i < j => journal[i].run_id <= journal[j].run_id
    /\ \A i \in DOMAIN journal : journal[i].run_id \in 1 .. run_id
    /\ rpc = "cycle" => \A i \in DOMAIN journal : journal[i].run_id < run_id
    /\ rpc = "returned" => Cardinality(JournalOf("decision", run_id)) = 1
    /\ \A id \in 1 .. run_id :
         /\ Cardinality(JournalOf("decision", id)) <= 1
         /\ (id < run_id /\ JournalOf("runner_error", id) = {}) =>
              Cardinality(JournalOf("decision", id)) = 1
         /\ \A i \in JournalOf("order", id) : \E j \in JournalOf("decision", id) : j < i

\* three cycles: one logged its decision, one raised and was recorded as a
\* runner_error, the third has just logged its decision
C16_Witness ==
    /\ rpc = "returned"
    /\ run_id = 3
    /\ Len(journal) = 3
    /\ journal[1].type = "decision" /\ journal[1].run_id = 1
    /\ journal[2].type = "runner_error" /\ journal[2].run_id = 2
    /\ journal[3].type = "decision" /\ journal[3].run_id = 3

\* C17: the decision record written for the cycle carries every field of the
\* returned AnalysisResult (agent, recommendation, confidence, reasoning, data,
\* timestamp) with the same value.
C17_RoundTrip ==
    \A i \in JournalOf("decision", run_id) :
      LET d == journal[i].decision[1]
      IN /\ {"agent", "recommendation", "confidence", "reasoning", "timestamp",
             "has_data", "symbol", "timeframe", "votes", "trade_details"}
               \subseteq DOMAIN d
         /\ d = Res

\* C18: when the instruments file is missing or cannot be parsed the process
\* refuses to start: no run id is generated and no agent is ever invoked.
C18_ConfigErrorFatal ==
    config_file # "ok" => (run_id = 0 /\ rpc = "start" /\ calls = << >>)

AgIn == ag_in[1]
AgOut == ag_out[1]

\* the data source or the local computation raised, for the agent called
DataFault ==
    IF AgIn.agent = "technical" THEN AgIn.data_state = "exception" ELSE AgIn.raises

\* the provider call or the handling of its response raised, and the call was
\* reached
ProviderFault ==
    /\ AgIn.instrument # ""
    /\ ~DataFault
    /\ (AgIn.agent = "technical" => AgIn.data_state = "ok")
    /\ AgIn.llm.kind = "raise"

\* C19 as stated: an analyst always returns, and an exception from the data
\* source, the computation, the provider call or the response handling gives
\* recommendation 'error' with confidence 0.
C19_AnyExceptionIsError ==
    ag_out # None =>
      ((AgIn.instrument # "" /\ (DataFault \/ ProviderFault)) =>
          (AgOut.recommendation = "error" /\ AgOut.confidence = 0))

\* the storing of the finished result raised: the Sentiment Agent's result
\* lists a calendar event, one of impact High or Medium inside the next 24
\* hours or the high-impact event that pauses trading
StoreFault ==
    /\ AgIn.agent = "sentiment"
    /\ AgIn.instrument # ""
    /\ ~DataFault
    /\ \E i \in DOMAIN AgIn.events :
         LET e == AgIn.events[i]
         IN \/ e.impact \in {"High", "Medium"} /\ e.at >= 0 /\ e.at <= 24 * 60
            \/ e.impact \in {"High", "HIGH"} /\ e.at >= 0 /\ e.at <= 15

\* C19 amended: an analyst always returns a result; an exception from the
\* data source or the local computation, or one raised while the finished
\* result is stored, gives 'error' with confidence 0, which is neither a buy
\* nor a sell vote; an exception inside the provider call or the reading of
\* its response is absorbed as a hold analysis of confidence 0.3 and, when the
\* result is stored without an exception, the returned recommendation is not
\* 'error'.
C19_ExceptionsContained ==
    ag_out # None =>
      /\ (AgIn.instrument # "" /\ (DataFault \/ StoreFault)) =>
           /\ AgOut.recommendation = "error" /\ AgOut.confidence = 0
           /\ CountVotes(<< AgOut.recommendation >>, "buy") = 0
           /\ CountVotes(<< AgOut.recommendation >>, "sell") = 0
      /\ (ProviderFault /\ ~StoreFault) =>
           /\ AgOut.recommendation # "error"
           /\ (AgIn.agent # "technical" =>
                 (AgOut.recommendation = "hold" /\ AgOut.confidence = 30))

\* the Fundamental Agent's provider call raised and it answered hold at 0.3
C19_Witness ==
    /\ ag_out # None
    /\ AgIn.agent = "fundamental" /\ ProviderFault
    /\ AgOut.recommendation = "hold" /\ AgOut.confidence = 30

\* C20: every recommendation an analyst returns is buy, sell, hold,
\* insufficient_data or error; a provider recommendation outside buy/sell/hold
\* is replaced by the rule-based fallback.
C20_RecommendationValidated ==
    ag_out # None =>
      AgOut.recommendation \in {"buy", "sell", "hold", "insufficient_data", "error"}

FnIn == fn_in[1]
FnOut == fn_out[1]

\* C21: _determine_recommendation returns the provider's (recommendation,
\* confidence) iff the recommendation is buy, sell or hold and the confidence
\* is at least 0.6; in every other case the recommendation follows the overall
\* signal alone: bullish gives buy, bearish gives sell, anything else hold.
C21_ProviderOrSignal ==
    fn_out # None =>
      LET given == FnIn.rec # None /\ FnIn.rec[1] # NullRec
          accepted == given /\ Lower(FnIn.rec[1]) \in {"buy", "sell", "hold"}
                            /\ FnIn.conf >= 60
      IN IF accepted
         THEN FnOut = << Lower(FnIn.rec[1]), FnIn.conf >>
         ELSE FnOut[1] = (CASE FnIn.overall = "bullish" -> "buy"
                            [] FnIn.overall = "bearish" -> "sell"
                            [] OTHER -> "hold")

\* C22: whenever a high-impact event lies within 15 minutes of now, before or
\* after it, SentimentAgent.analyze returns hold with confidence 0.3, whatever
\* the provider or the sentiment summary recommended.
C22_PauseWindow ==
    fn_out # None =>
      ((\E i \in DOMAIN FnIn.events :
          /\ FnIn.events[i].impact \in {"High", "HIGH"}
          /\ FnIn.events[i].at >= -15 /\ FnIn.events[i].at <= 15)
       => (FnOut.recommendation = "hold" /\ FnOut.confidence = 30))

\* C23: the equity check passes iff equity >= 0.5 x balance; an account whose
\* equity is exactly half of its balance passes.
C23_EquityCheck ==
    (fn_out # None /\ FnIn.fn = "perform_risk_checks") =>
      ((~FnOut.raised /\ FnOut.equity_check)
         <=> 2 * FnIn.account_info.equity >= FnIn.account_info.balance)

RECURSIVE SumOfLosses(_)
SumOfLosses(s) ==
    IF s = << >> THEN 0 ELSE MinOf(Head(s), 0) + SumOfLosses(Tail(s))

\* C24: the daily loss is the absolute value of the sum of the negative P&L
\* values alone (profitable deals do not offset losses), and daily_loss_ok is
\* true iff that value is below balance x the maximum daily loss fraction
\* (MAX_DAILY_LOSS, in percent).
C24_DailyLoss ==
    fn_out # None =>
      /\ FnIn.fn = "get_daily_loss" => FnOut = Abs(SumOfLosses(FnIn.profits))
      /\ FnIn.fn = "perform_risk_checks" =>
           ((~FnOut.raised /\ FnOut.daily_loss_ok)
              <=> 100 * Abs(SumOfLosses(FnIn.profits))
                    < FnIn.account_info.balance * Settings.MAX_DAILY_LOSS)

\* the threshold score and the permissive score of the
\* data e of one scan item
ThresholdScore(e) == MaxOf(min_score, score_baseline + MaxOf(e.mom, 0) + e.atr)
PermissiveScore(e) == score_baseline + e.atr

\* scan items with at least rows bars, when the connection is up
ScoredWith(rows) ==
    IF FnIn.connected
    THEN { i \in DOMAIN FnIn.instruments : FnIn.env[i].rows >= rows }
    ELSE {}

\* scan items the threshold pass admits
ThresholdAdmitted ==
    { i \in ScoredWith(min_rows_required) :
        /\ FnIn.env[i].atr >= min_atr_pct
        /\ ThresholdScore(FnIn.env[i]) >= min_score }

\* priority non-increasing, ties in scan order
OrderedByPriority(out) ==
    \A i, j \in DOMAIN out :
      i < j => \/ out[i].priority > out[j].priority
               \/ (out[i].priority = out[j].priority /\ out[i].idx < out[j].idx)

\* out holds the k highest permissive scores over the scan items of universe
TopKPermissive(out, universe, k) ==
    LET chosen == { out[j].idx : j \in DOMAIN out }
    IN /\ Len(out) = MinOf(k, Cardinality(universe))
       /\ Cardinality(chosen) = Len(out)
       /\ chosen \subseteq universe
       /\ \A j \in DOMAIN out :
            /\ out[j].priority = PermissiveScore(FnIn.env[out[j].idx])
            /\ out[j].symbol = FnIn.instruments[out[j].idx].symbol
            /\ \A i \in universe \ chosen :
                 PermissiveScore(FnIn.env[i]) <= out[j].priority

\* the contract of find_opportunities, the set of scan items the permissive
\* pass scores being left open
FindOpportunitiesContract(fallback_universe) ==
    /\ OrderedByPriority(FnOut)
    /\ IF ThresholdAdmitted = {} /\ FnIn.top_k > 0
       THEN /\ Len(FnOut) <= FnIn.top_k
            /\ TopKPermissive(FnOut, fallback_universe, FnIn.top_k)
       ELSE /\ { FnOut[j].idx : j \in DOMAIN FnOut } = ThresholdAdmitted
            /\ Len(FnOut) = Cardinality(ThresholdAdmitted)
            /\ \A j \in DOMAIN FnOut :
                 /\ FnOut[j].priority = ThresholdScore(FnIn.env[FnOut[j].idx])
                 /\ FnIn.env[FnOut[j].idx].atr >= min_atr_pct
                 /\ FnOut[j].priority >= min_score

\* C25: the permissive fallback is used only when the threshold pass admitted
\* nothing and K > 0, and then returns the K highest permissive scores over the
\* same instruments the threshold pass scored; otherwise every returned
\* candidate meets both thresholds; the list is ordered by priority
\* non-increasing, ties in scan order.
C25_FallbackSameInstruments ==
    fn_out # None => FindOpportunitiesContract(ScoredWith(min_rows_required))

\* C25 amended: as C25, the fallback's scores being taken over every scan item
\* for which at least 50 bars can be fetched (the threshold pass needs
\* RESEARCH_MIN_ROWS of them).
C25_FallbackOwnRows ==
    fn_out # None => FindOpportunitiesContract(ScoredWith(fallback_min_rows))

\* two instruments the threshold pass rejected, the second for its low
\* volatility and the first for having 50 bars only; the fallback kept the
\* first, whose permissive score is the higher
C25_Witness ==
    /\ fn_out # None
    /\ FnIn.connected /\ FnIn.top_k = 1 /\ Len(FnIn.instruments) = 2
    /\ ThresholdAdmitted = {}
    /\ FnIn.env[1].rows = 50 /\ FnIn.env[2].rows = 200
    /\ FnIn.env[1].atr > FnIn.env[2].atr
    /\ Len(FnOut) = 1 /\ FnOut[1].idx = 1

\* the result an agent called on its own returned, if it has returned
AgentReturned == IF ag_in # None THEN ag_out ELSE fn_out

\* C26: every analyze call of the Technical, Fundamental, Sentiment or Risk
\* Agent that returns a result has stored that result in long-term memory
\* before returning, the insufficient_data, error and reject results of the
\* early-exit and exception paths included.
C26_ResultPersisted ==
    AgentReturned # None =>
      \E i \in DOMAIN long_term_memory :
        /\ long_term_memory[i].memory_type = "decision"
        /\ long_term_memory[i].content = json_dumps(AgentReturned[1])

\* C27: after any sequence of store_short_term, store_decision,
\* store_observation and clear_short_term calls the short-term memory holds at
\* most 50 items, exactly the most recent min(50, n) of the n items stored
\* since the last clear, in insertion order.
C27_ShortTermWindow ==
    \A a \in AgentNames :
      LET n == Len(stored[a])
          kept == Len(short_term_memory[a])
      IN /\ kept <= 50
         /\ kept = MinOf(50, n)
         /\ \A i \in 1 .. kept : short_term_memory[a][i] = stored[a][n - kept + i]

\* 52 items were stored in one memory since its last clear, of three kinds,
\* and 50 are kept
C27_Witness ==
    \E a \in AgentNames :
      /\ Len(stored[a]) = 52
      /\ Len(short_term_memory[a]) = 50
      /\ short_term_memory[a][50].type = "observation"
      /\ short_term_memory[a][49].type = "note"
      /\ short_term_memory[a][48].type = "decision"
      /\ short_term_memory[a][1].content = content_number(3)

\* the seven hard checks of the Risk Agent, evaluated on what it was given
HardChecksPass(in) ==
    LET a == in.account_info[1]
        limits == check_position_limits(in.proposed_trade[1].instrument, in.positions)
    IN /\ a.balance > 100
       /\ 2 * a.equity > a.balance
       /\ (a.margin_level > 200 \/ a.margin_level = 0)
       /\ 100 * get_daily_loss(in.profits) < a.balance * Settings.MAX_DAILY_LOSS
       /\ (in.peak # 0 => 100 * (in.peak - a.equity) < in.peak * Settings.MAX_DRAWDOWN)
       /\ limits.positions_ok
       /\ limits.instrument_ok

\* C28: when the provider is unreachable, returns no choices or unparseable
\* text, or the call raises, the Risk Agent's provider assessment defaults to
\* approve, so the Risk Agent approves the trade iff all seven hard checks pass.
C28_FailsOpenToProvider ==
    (/\ ag_in = None /\ fn_out # None
     /\ FnIn.proposed_trade # None /\ FnIn.account_info # None
     /\ FnIn.llm.kind \in {"unavailable", "raise"}) =>
      /\ risk_analyze_with_llm(FnIn.llm).rec = Some("approve")
      /\ FnOut.recommendation = "approve" <=> HardChecksPass(FnIn)

\* an exception interrupts the Risk Agent's checks whatever account state,
\* closed deals and peak balance it is given
RiskChecksRaise ==
    \A a \in Accounts, p \in ProfitLists, k \in PeakChoices :
      perform_risk_checks(a, p, k).raised \/ calculate_position_size_raises

\* C29: whenever the Risk Agent cannot obtain the account state, or an
\* exception interrupts its checks, its result is not approve, the Portfolio
\* Manager takes it as a veto, the cycle ends in hold and the Execution Agent
\* is never invoked.
C29_FailsClosedOnOwnData ==
    (RiskCalled /\ (risk_case = "no_account" \/ RiskChecksRaise)) =>
      /\ RiskRec # "approve"
      /\ RiskRec = (IF risk_case = "no_account" THEN "error" ELSE "reject")
      /\ AfterRisk => decision.final = "hold"
      /\ AgentCalls("execution") = {}
      /\ ~ExecCalled
      /\ Returned => (Res.recommendation = "hold" /\ Res.trade_details = EmptyDict)

\* a proposed sell, no account state to be had, the cycle returned hold
C29_Witness ==
    /\ Returned /\ RiskCalled
    /\ risk_case = "no_account" /\ RiskRec = "error"
    /\ pre_risk.final = "sell"
    /\ Res.recommendation = "hold"
    /\ AgentCalls("execution") = {}

\* C30: the decision record of a cycle that analysed a candidate carries that
\* candidate's symbol, and so does any order record; 'MULTI' appears only for
\* cycles that ended in no_action.
C30_RecordSymbol ==
    \A i \in DOMAIN journal :
      (journal[i].run_id = run_id /\ journal[i].type \in {"decision", "order"}) =>
        /\ Res.has_data => journal[i].symbol = Res.symbol
        /\ journal[i].symbol = "MULTI" => Res.recommendation = "no_action"

====
